---- MODULE Spec2Model ----
(***************************************************************************)
(* Model of fastx402: the signing coordinator X402WebSocketServer          *)
(* (fastx402/client/ws_server.py) and the server-side payment guard        *)
(* (fastx402/decorators.py, fastx402/server.py, fastx402/utils.py).        *)
(*                                                                         *)
(* The coordinator runs on one asyncio event loop: every action below is   *)
(* the code executed between two suspension points (await) of one task.    *)
(* The lifecycle calls start() and stop() are issued by the one task that  *)
(* owns the coordinator, one after the other (as X402Client does), while   *)
(* connections, inbound messages, request_signature calls and timers       *)
(* interleave freely with them.                                            *)
(***************************************************************************)
EXTENDS Integers, Sequences, FiniteSets, TLC

\* ---------------------------------------------------------------- bounds
MaxReqs == 2
MaxConns == 2
MaxEndpoints == 2
TimeoutTicks == 1
\* request_signature calls made in the specifications that include stop()
MaxStopReqs == 1

Ids == 1..MaxReqs
ConnIds == 1..MaxConns
Handles == 1..MaxEndpoints
NoId == 0
NoServer == 0
NoVal == "absent"

\* ports a coordinator can be constructed with: 0 lets the OS pick a free
\* port at every serve(), 4021 is the default
DefaultPort == 4021
Ports == {0, DefaultPort}

VARIABLES
    port,              \* self.port
    server,            \* self.server: handle of the last serve(), or NoServer
    listening,         \* handles whose listening endpoint is open
    running,           \* self.running
    clients,           \* self.clients: connection ids in insertion order
    conn,              \* per connection: handler position, transport, endpoint
    pending_requests,  \* self.pending_requests: ids with a registered future
    fut,               \* per id: the asyncio.Future created by request_signature
    call,              \* per id: position of the request_signature call
    stopPc,            \* position of the stop() call
    stopSnap,          \* list(self.clients.items()) still to be closed by stop()
    ev                 \* the step just taken: operation, input, error raised,
                       \* messages sent, outcome delivered to a caller

wsvars == <<port, server, listening, running, clients, conn, pending_requests,
            fut, call, stopPc, stopSnap, ev>>

VARIABLES
    config,            \* X402Server.config of the global server instance
    issued,            \* the challenges create_challenge has returned so far
    resp               \* the last guarded request and the wrapper's answer to it

httpvars == <<config, issued, resp>>

VARIABLES
    out,               \* the last call of a function of utils.py or server.py
    cli,               \* the call in progress of a client wrapper
    env,               \* os.environ: X402_MERCHANT_ADDRESS, or NoVal when unset
    server_instance,   \* decorators._server_instance: a config, or NoServer
    xc                 \* an X402Client: its signing path, its coordinators, the
                       \* request() calls that handle a 402, its close() call

extvars == <<out, cli, env, server_instance, xc>>

vars == <<wsvars, httpvars, extvars>>

\* ------------------------------------------------------------- messages
\* inbound payloads a peer can send; "badjson" is a payload json.loads rejects
SignResponses ==
    [type : {"sign-response"}, id : Ids \cup {NoId}, error : {NoVal, "boom"},
     result : {NoVal, "sig", "bad"}]
\* the JSON value null of a key that is present (None once parsed)
Null == "null"
ErrorMsgs ==
    [type : {"error"}, id : Ids \cup {NoId}, error : {NoVal, Null, "boom"},
     result : {NoVal}]
OtherMsgs ==
    [type : {"pong", "other", "badjson"}, id : {NoId}, error : {NoVal},
     result : {NoVal}]
Messages == SignResponses \cup ErrorMsgs \cup OtherMsgs
NoMsg == [type |-> "", id |-> NoId, error |-> NoVal, result |-> NoVal]

NoOutcome == [kind |-> "none", val |-> NoVal]
Outcome(kind, val) == [kind |-> kind, val |-> val]

Event(op, c, i, msg, raised, sent, result) ==
    [op |-> op, c |-> c, i |-> i, msg |-> msg, raised |-> raised, sent |-> sent,
     result |-> result]

Out(to, type, i) == [to |-> to, type |-> type, i |-> i]

\* ------------------------------------------------------------ registries
RECURSIVE Without(_, _)
Without(s, c) ==
    IF s = <<>> THEN <<>>
    ELSE IF Head(s) = c THEN Without(Tail(s), c)
    ELSE <<Head(s)>> \o Without(Tail(s), c)

Range(s) == {s[k] : k \in 1..Len(s)}

NoFuture == [st |-> "none", val |-> NoVal]
NewFuture == [st |-> "pending", val |-> NoVal]
NoCall == [pc |-> "none", target |-> 0, waited |-> 0]
Returned == [pc |-> "done", target |-> 0, waited |-> 0]
NoConn == [st |-> "unused", ws |-> "none", srv |-> NoServer]
Gone == [st |-> "gone", ws |-> "none", srv |-> NoServer]

\* a request id that is not unique
FreshReqId_Constant == CHOOSE i \in Ids : \A j \in Ids : i <= j

\* uuid.uuid4(): a token no earlier call produced
FreshReqId ==
    CHOOSE i \in Ids : call[i].pc = "none" /\ \A j \in Ids : call[j].pc = "none" => i <= j
\* a connection id that is not unique
FreshConnId_Constant == CHOOSE c \in ConnIds : \A d \in ConnIds : c <= d

\* uuid.uuid4() of handle_client (76)
FreshConnId ==
    CHOOSE c \in ConnIds : conn[c].st = "unused"
                           /\ \A d \in ConnIds : conn[d].st = "unused" => c <= d

WsInitAt(ports) ==
    /\ port \in ports
    /\ server = NoServer
    /\ listening = {}
    /\ running = FALSE
    /\ clients = <<>>
    /\ conn = [c \in ConnIds |-> NoConn]
    /\ pending_requests = {}
    /\ fut = [i \in Ids |-> NoFuture]
    /\ call = [i \in Ids |-> NoCall]
    /\ stopPc = "idle"
    /\ stopSnap = <<>>
    /\ ev = Event("init", 0, NoId, NoMsg, "", {}, NoOutcome)

\* ------------------------------------------------------ start (60-112)
\* websockets.serve(handle_client, "localhost", self.port): binding a fixed
\* port that an open endpoint of this coordinator already holds fails with
\* OSError; port 0 always yields a new endpoint
ServeFails == port # 0 /\ listening # {}

NewHandle == CHOOSE h \in Handles : h \notin listening /\ \A g \in Handles \ listening : h <= g

\* start() while no stop() is in progress
Start ==
    /\ stopPc = "idle"
    /\ IF ServeFails
       THEN /\ UNCHANGED <<server, listening, running>>
            /\ ev' = Event("start", 0, NoId, NoMsg, "OSError", {}, NoOutcome)
       ELSE /\ Handles \ listening # {}
            /\ server' = NewHandle
            /\ listening' = listening \cup {NewHandle}
            /\ running' = TRUE
            /\ ev' = Event("start", 0, NoId, NoMsg, "", {}, NoOutcome)
    /\ UNCHANGED <<extvars, httpvars, port, clients, conn, pending_requests, fut, call,
                   stopPc, stopSnap>>

\* ---------------------------------------------- handle_client (70-108)
\* a connection on the configured path: registered, then sent the welcome,
\* whose clientId is the third field of the message
Accept(h) ==
    /\ h \in listening
    /\ \E c \in ConnIds : conn[c].st = "unused"
    /\ LET c == FreshConnId IN
        /\ clients' = Append(clients, c)
        /\ conn' = [conn EXCEPT ![c] = [st |-> "loop", ws |-> "open", srv |-> h]]
        /\ ev' = Event("connect", c, NoId, NoMsg, "", {Out(c, "connected", c)},
                       NoOutcome)
    /\ UNCHANGED <<extvars, httpvars, port, server, listening, running, pending_requests,
                   fut, call, stopPc, stopSnap>>

\* a path check that lets the connection into the message loop
Rejected_Served(h) == [st |-> "loop", ws |-> "open", srv |-> h]

\* 72-74: websocket.close(code=4004) and return: the transport is closed
\* and the handler has ended
Rejected(h) == [st |-> "rejected", ws |-> "closed", srv |-> h]

\* a connection on another path: closed with code 4004, never registered
\* (c is the websocket object; no clientId is drawn for it)
AcceptBadPath(h) ==
    /\ h \in listening
    /\ \E c \in ConnIds : conn[c].st = "unused"
    /\ LET c == FreshConnId IN
        /\ conn' = [conn EXCEPT ![c] = Rejected(h)]
        /\ ev' = Event("reject-path", c, NoId, NoMsg, "", {}, NoOutcome)
    /\ UNCHANGED <<extvars, httpvars, port, server, listening, running, clients,
                   pending_requests, fut, call, stopPc, stopSnap>>

\* a finally block that empties the registry
Unregister_All(c) == <<>>

\* 105-108: the finally block of handle_client
Unregister(c) == Without(clients, c)

\* the handler leaves its message loop (peer gone or transport closed)
Disconnect(c) ==
    /\ conn[c].st = "loop"
    /\ conn' = [conn EXCEPT ![c] = Gone]
    /\ clients' = Unregister(c)
    /\ ev' = Event("disconnect", c, NoId, NoMsg, "", {}, NoOutcome)
    /\ UNCHANGED <<extvars, httpvars, port, server, listening, running, pending_requests,
                   fut, call, stopPc, stopSnap>>

\* -------------------------------------------- _handle_message (114-144)
\* 121, 141: msg_id and msg_id in self.pending_requests
Matches(m) == m.id # NoId /\ m.id \in pending_requests

\* future.set_result / future.set_exception: allowed on a pending future
\* only, InvalidStateError otherwise
Resolve(f, st, val) == IF f.st = "pending" THEN [st |-> st, val |-> val] ELSE f

ErrorText(m) == IF m.error = NoVal THEN "Unknown error" ELSE m.error

HandleRaised(m) ==
    IF m.type = "sign-response" /\ Matches(m)
    THEN IF m.error # NoVal
         THEN IF fut[m.id].st = "pending" THEN "" ELSE "InvalidStateError"
         ELSE IF m.result = "bad" THEN "ValidationError"
         ELSE IF fut[m.id].st = "pending" THEN "" ELSE "InvalidStateError"
    ELSE IF m.type = "error" /\ Matches(m)
    THEN IF fut[m.id].st = "pending" THEN "" ELSE "InvalidStateError"
    ELSE ""

\* a handler that leaves the entry in the registry
HandlePending_Keep(m) == pending_requests

HandlePending(m) ==
    IF m.type \in {"sign-response", "error"} /\ Matches(m)
    THEN pending_requests \ {m.id}
    ELSE pending_requests

HandleFut(m) ==
    IF m.type = "sign-response" /\ Matches(m)
    THEN IF m.error # NoVal
         THEN [fut EXCEPT ![m.id] = Resolve(@, "exception", m.error)]
         ELSE IF m.result = "bad" THEN fut
         ELSE IF m.result = NoVal
         THEN [fut EXCEPT ![m.id] = Resolve(@, "result", "None")]
         ELSE [fut EXCEPT ![m.id] = Resolve(@, "result", m.result)]
    ELSE IF m.type = "error" /\ Matches(m)
    THEN [fut EXCEPT ![m.id] = Resolve(@, "exception", ErrorText(m))]
    ELSE fut

\* what an iteration of the message loop looks at: the error and result of
\* a message are read only in the branches that matched a pending request
Read(m) ==
    IF m.type \in {"sign-response", "error"} /\ Matches(m) THEN m
    ELSE [m EXCEPT !.error = NoVal, !.result = NoVal]

\* a handler that acts on responses of the first registered connection only
Handled_FirstOnly(c, m) ==
    IF m.type = "sign-response" /\ c # Head(clients)
    THEN [m EXCEPT !.type = "other"] ELSE m

\* 91, 114-117: _handle_message(client_id, data) reads the type and the id
\* of the message and never looks at client_id
Handled(c, m) == m

\* one iteration of the message loop of handle_client (88-101)
Receive(c, m) ==
    /\ conn[c].st = "loop"
    /\ LET raised == IF m.type = "badjson" THEN "JSONDecodeError"
                     ELSE HandleRaised(Handled(c, m))
           who == IF raised # "" \/ Read(m) = m THEN c ELSE 0
       IN
        /\ pending_requests' = (IF m.type = "badjson" THEN pending_requests
                                ELSE HandlePending(Handled(c, m)))
        /\ fut' = (IF m.type = "badjson" THEN fut ELSE HandleFut(Handled(c, m)))
        /\ IF raised # "" /\ conn[c].ws # "open"
           THEN \* the error acknowledgment cannot be sent: the handler ends
                /\ conn' = [conn EXCEPT ![c] = Gone]
                /\ clients' = Unregister(c)
                /\ ev' = Event("message", who, m.id, Read(m), raised, {}, NoOutcome)
           ELSE /\ UNCHANGED <<conn, clients>>
                /\ ev' = Event("message", who, m.id, Read(m), raised,
                               IF raised # "" THEN {Out(c, "error", NoId)} ELSE {},
                               NoOutcome)
    /\ UNCHANGED <<extvars, httpvars, port, server, listening, running, call, stopPc,
                   stopSnap>>

\* ------------------------------------------ request_signature (146-199)
\* a call that returns nothing to its caller
Delivered_Nothing(f) == NoOutcome

\* what the suspended call receives from its future once the future is done
Delivered(f) ==
    IF f.st = "result" THEN Outcome("success", f.val)
    ELSE IF f.st = "exception" THEN Outcome("error", f.val)
    ELSE Outcome("cancelled", NoVal)

\* the call has returned or raised: its future is garbage unless the
\* registry still refers to it
Discard(i, pend) == IF i \in pend THEN fut ELSE [fut EXCEPT ![i] = NoFuture]

\* the no-signer check made after the future has been registered
RequestNoSigner_RegistersFirst ==
    /\ clients = <<>>
    /\ \E i \in Ids : call[i].pc = "none"
    /\ pending_requests' = pending_requests \cup {FreshReqId}
    /\ fut' = [fut EXCEPT ![FreshReqId] = NewFuture]
    /\ ev' = Event("request_signature", 0, NoId, NoMsg, "ConnectionError", {},
                   NoOutcome)
    /\ UNCHANGED <<extvars, httpvars, port, server, listening, running, clients, conn,
                   call, stopPc, stopSnap>>

\* 163-164: no registered connection
RequestNoSigner ==
    /\ clients = <<>>
    /\ ev' = Event("request_signature", 0, NoId, NoMsg, "ConnectionError", {},
                   NoOutcome)
    /\ UNCHANGED <<extvars, httpvars, port, server, listening, running, clients, conn,
                   pending_requests, fut, call, stopPc, stopSnap>>

\* the connection registered last
FirstClient_Last == clients[Len(clients)]

\* 186: next(iter(self.clients.values()))
FirstClient == Head(clients)

\* a call whose entry is not yet registered when the send begins
Register_AfterSend(i) == pending_requests

\* 181: self.pending_requests[request_id] = future
Register(i) == pending_requests \cup {i}

\* 166-187: fresh id, future registered, first connection selected, send begun
RequestSignature ==
    /\ clients # <<>>
    /\ \E i \in Ids : call[i].pc = "none"
    /\ LET i == FreshReqId IN
        /\ fut' = [fut EXCEPT ![i] = NewFuture]
        /\ pending_requests' = Register(i)
        /\ call' = [call EXCEPT ![i] = [pc |-> "sending", target |-> FirstClient,
                                        waited |-> 0]]
        /\ ev' = Event("request_signature", FirstClient, i, NoMsg, "", {}, NoOutcome)
    /\ UNCHANGED <<extvars, httpvars, port, server, listening, running, clients, conn,
                   stopPc, stopSnap>>

\* an except clause that re-raises without removing the entry
FailurePop_Keep(i) == pending_requests

\* 197-199: except Exception: self.pending_requests.pop(request_id, None)
FailurePop(i) == pending_requests \ {i}

\* 187-199: client_ws.send completes or raises; on success wait_for begins
\* (a future that is already done is returned at once)
SendDone(i, ok) ==
    /\ call[i].pc = "sending"
    /\ ok => conn[call[i].target].ws = "open"
    /\ IF ok /\ fut[i].st = "pending"
       THEN /\ ev' = Event("send", call[i].target, i, NoMsg, "",
                           {Out(call[i].target, "sign-request", i)}, NoOutcome)
            /\ call' = [call EXCEPT ![i] = [pc |-> "waiting", target |-> 0,
                                            waited |-> 0]]
            /\ UNCHANGED <<pending_requests, fut>>
       ELSE LET pend == IF ok /\ fut[i].st # "exception"
                        THEN pending_requests ELSE FailurePop(i)
            IN /\ ev' = (IF ok
                         THEN Event("send", call[i].target, i, NoMsg, "",
                                    {Out(call[i].target, "sign-request", i)},
                                    Delivered(fut[i]))
                         ELSE Event("send", call[i].target, i, NoMsg,
                                    "ConnectionClosed", {},
                                    Outcome("sendfail", NoVal)))
               /\ call' = [call EXCEPT ![i] = Returned]
               /\ pending_requests' = pend
               /\ fut' = Discard(i, pend)
    /\ UNCHANGED <<extvars, httpvars, port, server, listening, running, clients, conn,
                   stopPc, stopSnap>>

\* time advances by one unit for every call suspended in wait_for
Tick ==
    /\ \E i \in Ids : call[i].pc = "waiting" /\ call[i].waited < TimeoutTicks
    /\ call' = [i \in Ids |->
                  IF call[i].pc = "waiting" /\ call[i].waited < TimeoutTicks
                  THEN [call[i] EXCEPT !.waited = @ + 1] ELSE call[i]]
    /\ ev' = Event("tick", 0, NoId, NoMsg, "", {}, NoOutcome)
    /\ UNCHANGED <<extvars, httpvars, port, server, listening, running, clients, conn,
                   pending_requests, fut, stopPc, stopSnap>>

\* a timer that is due as soon as the wait begins
TimerDue_AtOnce(i) == TRUE

\* asyncio.wait_for(future, timeout=self.timeout), 191: the timer is due
TimerDue(i) == call[i].waited = TimeoutTicks

\* the timer callback of wait_for: it cancels the awaited future; the
\* suspended call is resumed in a later step of the event loop
TimerFire(i) ==
    /\ call[i].pc = "waiting"
    /\ TimerDue(i)
    /\ call' = [call EXCEPT ![i].pc = "expired"]
    /\ fut' = [fut EXCEPT ![i] = IF @.st = "pending"
                                 THEN [st |-> "cancelled", val |-> NoVal] ELSE @]
    /\ ev' = Event("timer", 0, i, NoMsg, "", {}, NoOutcome)
    /\ UNCHANGED <<extvars, httpvars, port, server, listening, running, clients, conn,
                   pending_requests, stopPc, stopSnap>>

\* 194: self.pending_requests.pop(request_id, None)
TimeoutPop(i) == pending_requests \ {i}

\* 193-195: the call resumes with asyncio.TimeoutError
ResumeTimeout(i) ==
    /\ call[i].pc = "expired"
    /\ call' = [call EXCEPT ![i] = Returned]
    /\ pending_requests' = TimeoutPop(i)
    /\ fut' = Discard(i, TimeoutPop(i))
    /\ ev' = Event("resume", 0, i, NoMsg, "TimeoutError", {},
                   Outcome("timeout", NoVal))
    /\ UNCHANGED <<extvars, httpvars, port, server, listening, running, clients, conn,
                   stopPc, stopSnap>>

\* 191-192, 197-199: the call resumes with the future's result, exception or
\* cancellation (CancelledError is not an Exception: 197 does not catch it)
Resume(i) ==
    /\ call[i].pc = "waiting"
    /\ fut[i].st # "pending"
    /\ LET pend == IF fut[i].st = "exception"
                   THEN FailurePop(i) ELSE pending_requests
       IN /\ call' = [call EXCEPT ![i] = Returned]
          /\ pending_requests' = pend
          /\ fut' = Discard(i, pend)
          /\ ev' = Event("resume", 0, i, NoMsg,
                         IF fut[i].st = "result" THEN ""
                         ELSE IF fut[i].st = "exception" THEN "Exception"
                         ELSE "CancelledError", {}, Delivered(fut[i]))
    /\ UNCHANGED <<extvars, httpvars, port, server, listening, running, clients, conn,
                   stopPc, stopSnap>>

\* the task awaiting request_signature is cancelled by its owner while the
\* call is suspended (187 or 191): in wait_for the future is cancelled with
\* it, in send the future stays as it is; CancelledError is not an
\* Exception, so neither 193 nor 197 runs and nothing is popped
CancelCaller(i) ==
    /\ call[i].pc \in {"sending", "waiting"}
    /\ fut[i].st = "pending"
    /\ call' = [call EXCEPT ![i] = Returned]
    /\ fut' = [fut EXCEPT ![i] = IF call[i].pc = "waiting"
                                 THEN [st |-> "cancelled", val |-> NoVal] ELSE @]
    /\ ev' = Event("cancel-caller", 0, i, NoMsg, "CancelledError", {},
                   Outcome("cancelled", NoVal))
    /\ UNCHANGED <<extvars, httpvars, port, server, listening, running, clients, conn,
                   pending_requests, stopPc, stopSnap>>

\* ------------------------------------------------------- stop (201-222)
\* 214-216: cancel every future of the registry that is not done
CancelPending ==
    [i \in Ids |-> IF i \in pending_requests /\ fut[i].st = "pending"
                   THEN [st |-> "cancelled", val |-> NoVal]
                   ELSE fut[i]]

\* self.server.close(): the endpoint stops listening and the library closes
\* the connections it accepted
ServedBy(h) == {c \in ConnIds : conn[c].st = "loop" /\ conn[c].srv = h}

\* 211-222: what stop() does without suspending once the loop over the
\* snapshot has ended: registries cleared, futures cancelled, server closed;
\* cn is the connection table the loop leaves. Without a server handle
\* stop() returns here, with one it suspends in wait_closed.
StopFinish(cn) ==
    /\ clients' = <<>>
    /\ fut' = CancelPending
    /\ pending_requests' = {}
    /\ IF server # NoServer
       THEN /\ listening' = listening \ {server}
            /\ conn' = [c \in ConnIds |-> IF c \in ServedBy(server)
                                          THEN [cn[c] EXCEPT !.ws = "closed"]
                                          ELSE cn[c]]
            /\ stopPc' = "wait_closed"
       ELSE /\ listening' = listening
            /\ conn' = cn
            /\ stopPc' = "idle"

\* 203-207: flag cleared, snapshot of the registry taken; stop() suspends in
\* the first close(), or runs on to 211-222 when the registry is empty
StopBegin ==
    /\ stopPc = "idle"
    /\ running' = FALSE
    /\ stopSnap' = clients
    /\ IF clients = <<>>
       THEN /\ StopFinish(conn)
            /\ ev' = Event(IF server # NoServer THEN "stop-finish" ELSE "stop-done",
                           0, NoId, NoMsg, "", {}, NoOutcome)
       ELSE /\ stopPc' = "closing"
            /\ ev' = Event("stop-begin", 0, NoId, NoMsg, "", {}, NoOutcome)
            /\ UNCHANGED <<listening, clients, conn, pending_requests, fut>>
    /\ UNCHANGED <<extvars, httpvars, port, server, call>>

\* 209-210: except Exception: pass -- the loop goes on with the next one
AfterClose(ok) == Tail(stopSnap)

\* 207-210: await websocket.close() on the next connection of the snapshot
\* ends; stop() goes on to the next close(), or to 211-222 after the last
StopClose(ok) ==
    /\ stopPc = "closing"
    /\ stopSnap # <<>>
    /\ LET c  == Head(stopSnap)
           cn == IF conn[c].st = "loop"
                 THEN [conn EXCEPT ![c].ws = IF ok THEN "closed" ELSE "closefailed"]
                 ELSE conn
       IN  /\ stopSnap' = AfterClose(ok)
           /\ ev' = Event("stop-close", c, NoId, NoMsg,
                          IF ok THEN "" ELSE "Exception", {}, NoOutcome)
           /\ IF AfterClose(ok) = <<>>
              THEN StopFinish(cn)
              ELSE /\ conn' = cn
                   /\ UNCHANGED <<listening, clients, pending_requests, fut, stopPc>>
    /\ UNCHANGED <<extvars, httpvars, port, server, running, call>>

\* 222: wait_closed returns, stop() returns
StopDone ==
    /\ stopPc = "wait_closed"
    /\ stopPc' = "idle"
    /\ ev' = Event("stop-done", 0, NoId, NoMsg, "", {}, NoOutcome)
    /\ UNCHANGED <<extvars, httpvars, port, server, listening, running, clients, conn,
                   pending_requests, fut, call, stopSnap>>

\* ------------------------------------------------- specifications
\* a payload the handler acts on: it is rejected by json.loads, or it is
\* addressed to a registered request
Effective(m) ==
    \/ m.type = "badjson"
    \/ m.type \in {"sign-response", "error"} /\ Matches(m)

\* requests, responses, timers and connections of a started coordinator
RequestNext ==
    \/ Start
    \/ \E h \in Handles : Accept(h)
    \/ \E h \in Handles : AcceptBadPath(h)
    \/ \E c \in ConnIds : Disconnect(c)
    \/ \E c \in ConnIds, m \in Messages : Effective(m) /\ Receive(c, m)
    \/ RequestNoSigner
    \/ RequestSignature
    \/ \E i \in Ids, ok \in BOOLEAN : SendDone(i, ok)
    \/ Tick
    \/ \E i \in Ids : TimerFire(i)
    \/ \E i \in Ids : ResumeTimeout(i)
    \/ \E i \in Ids : Resume(i)

StopNext ==
    \/ StopBegin
    \/ \E ok \in BOOLEAN : StopClose(ok)
    \/ StopDone

\* =================== payment guard: decorators.py, server.py, utils.py
MaxIssued == 2
Now == 1699123456

Prices == {"0.01", "5"}
Currencies == {"USDC", "DAI"}
Chains == {8453, 1}
\* chain_id = None, as distinct from a chain id of 0
NoChain == -1
\* merchant addresses as written: lower case, checksummed, and another address
Merchants == {"0xabc", "0xAbC", "0xdef"}
\* merchant strings that are no address as written: wrongly cased, without
\* the 0x prefix, with characters that are no hex digits, too short
MalformedMerchants ==
    {"0xaBc", "abc", "AbC", "0xzz", "zz", "Zz", "0xZz", "0x12", "12"}
\* the key "description" missing from a challenge record (None is NoVal)
Missing == "missing"
Keys == {1, 2}

\* eth_utils.to_checksum_address on the addresses of the model
ToChecksum(a) ==
    IF a \in {"0xabc", "0xAbC", "0xABC", "0xaBc", "abc", "AbC"} THEN "0xAbC"
    ELSE IF a \in {"0xdef", "0xDeF", "0xDEF"} THEN "0xDeF"
    ELSE IF a \in {"0xk1", "0xK1"} THEN "0xK1"
    ELSE IF a \in {"0xk2", "0xK2"} THEN "0xK2"
    ELSE a

\* a comparison that keeps the letter case
Lower_Identity(a) == a

\* str.lower on the addresses of the model
Lower(a) ==
    IF a \in {"0xabc", "0xAbC", "0xABC", "0xaBc"} THEN "0xabc"
    ELSE IF a \in {"0xdef", "0xDeF", "0xDEF"} THEN "0xdef"
    ELSE IF a \in {"0xk1", "0xK1"} THEN "0xk1"
    ELSE IF a \in {"0xk2", "0xK2"} THEN "0xk2"
    ELSE IF a = "AbC" THEN "abc"
    ELSE IF a = "Zz" THEN "zz"
    ELSE IF a = "0xZz" THEN "0xzz"
    ELSE a

\* str.upper: on a string that begins with "0x" it turns the x into X
Upper(a) ==
    IF a \in {"abc", "AbC"} THEN "ABC"
    ELSE IF a \in {"zz", "Zz"} THEN "ZZ"
    ELSE IF a = "12" THEN "12"
    ELSE "0X"

\* merchant.startswith("0x")
StartsWith0x(a) == a \notin {"abc", "AbC", "zz", "Zz", "12"}

\* "0x" + a
Prefix0x(a) ==
    IF a = "abc" THEN "0xabc"
    ELSE IF a = "AbC" THEN "0xAbC"
    ELSE IF a = "zz" THEN "0xzz"
    ELSE IF a = "Zz" THEN "0xZz"
    ELSE IF a = "12" THEN "0x12"
    ELSE a

\* eth_utils.to_checksum_address(a) returns: a is, once lowered and
\* prefixed, the hex text of an address; it raises ValueError otherwise
CanChecksum(a) ==
    Lower(Prefix0x(a)) \in {"0xabc", "0xdef", "0xk1", "0xk2"}

\* eth_utils.is_address of the address encoder: a checksummed address
IsChecksummed(a) == a \in {"0xAbC", "0xDeF", "0xK1", "0xK2"}

\* utils.py 49: merchant != merchant.lower() and merchant != merchant.upper()
MixedCase(a) == a # Lower(a) /\ a # Upper(a)

\* utils.py 53-55, the inner except: the merchant as it is
Fallback(m) == m

\* utils.py 44-62: merchant_checksum
merchant_checksum(m) ==
    IF MixedCase(m)
    THEN IF CanChecksum(Lower(m)) THEN ToChecksum(Lower(m)) ELSE Fallback(m)
    ELSE LET merchant_lower ==
                 IF StartsWith0x(m) THEN Lower(m) ELSE Prefix0x(Lower(m))
         IN  IF CanChecksum(merchant_lower) THEN ToChecksum(merchant_lower)
             ELSE IF StartsWith0x(m) THEN m ELSE Prefix0x(m)

\* the address of a private key (Account.from_key(k).address)
Address(k) == IF k = 1 THEN "0xK1" ELSE "0xK2"

Challenge(price, currency, chain_id, merchant, timestamp, description, nonce) ==
    [form |-> "ok", price |-> price, currency |-> currency, chain_id |-> chain_id,
     merchant |-> merchant, timestamp |-> timestamp, description |-> description,
     nonce |-> nonce]
NoChallenge ==
    [form |-> "absent", price |-> "", currency |-> "", chain_id |-> NoChain,
     merchant |-> "", timestamp |-> 0, description |-> NoVal, nonce |-> 0]
\* a challenge object of the header that is {} or that PaymentChallenge rejects
EmptyChallenge == [NoChallenge EXCEPT !.form = "empty"]
MalformedChallenge == [NoChallenge EXCEPT !.form = "malformed"]

\* create_payment_message (utils.py 42-71): the fields that are signed
create_payment_message(c) ==
    <<c.price, c.currency, c.chain_id, merchant_checksum(c.merchant), c.timestamp,
      IF c.description = Missing THEN "" ELSE c.description>>
\* the merchant and the description of a payment message
MsgMerchant(m) == m[4]
MsgDescription(m) == m[6]

\* get_eip712_domain (utils.py 12-19)
get_eip712_domain(chain_id) == <<"x402", "1", chain_id, "0x0">>

\* encode_payment_message (utils.py 74-94): the typed-data hash, modelled as
\* the pair it is computed from (an injective digest)
encode_payment_message(c) ==
    <<get_eip712_domain(c.chain_id), create_payment_message(c)>>

\* utils.py 91: encode_typed_data raises when the merchant of the message is
\* no address (the type of the field is address)
EncodeRaises(c) == ~IsChecksummed(MsgMerchant(create_payment_message(c)))

NoHash == <<>>
Signature(form, key, over) == [form |-> form, key |-> key, over |-> over]
\* a signature made with private key k over message hash h
Sign(k, h) == Signature("sig", k, h)
GarbageSignature == Signature("garbage", 0, NoHash)
NoSignature == Signature("absent", 0, NoHash)
EmptySignature == Signature("empty", 0, NoHash)

\* Account.recover_message: the signing address when the hash is the one
\* signed, an unrelated address otherwise
Recover(sig, h) == IF sig.over = h THEN Address(sig.key) ELSE "0xunrelated"

\* verify_signature (utils.py 97-110)
verify_signature(sig, h, signer) ==
    IF sig.form # "sig" THEN FALSE
    ELSE Lower(Recover(sig, h)) = Lower(signer)

Result(valid, signer, error) ==
    [valid |-> valid, signer |-> signer, error |-> error, raised |-> ""]
\* an exception leaving the body of a function instead of a result
Raise(e) == [valid |-> FALSE, signer |-> NoVal, error |-> NoVal, raised |-> e]

Header(kind, sig, signer, ch) ==
    [kind |-> kind, signature |-> sig, signer |-> signer, challenge |-> ch]
NoHeader == Header("absent", NoSignature, NoVal, NoChallenge)

\* a check that looks at the signature only
Complete_SignatureOnly(h) == h.signature.form \in {"sig", "garbage"}

\* all([signature, signer, challenge_dict]) of server.py 103
Complete(h) ==
    /\ h.signature.form \in {"sig", "garbage"}
    /\ h.signer \notin {NoVal, ""}
    /\ h.challenge.form \in {"ok", "malformed"}

\* server.py 96-124, the body of the try block: json.loads raises on text
\* that is not JSON, payment_data.get on JSON that is no object,
\* PaymentChallenge(**challenge_dict) on a challenge with missing or
\* ill-typed fields
TryVerify(h) ==
    IF h.kind = "notjson" THEN Raise("JSONDecodeError")
    ELSE IF h.kind = "nonobject" THEN Raise("AttributeError")
    ELSE IF ~Complete(h)
    THEN Result(FALSE, NoVal, "Invalid payment header format")
    ELSE IF h.challenge.form # "ok" THEN Raise("ValidationError")
    ELSE IF EncodeRaises(h.challenge) THEN Raise("EncodingTypeError")
    ELSE IF ~verify_signature(h.signature, encode_payment_message(h.challenge),
                              h.signer)
    THEN Result(FALSE, NoVal, "Signature verification failed")
    ELSE Result(TRUE, h.signer, NoVal)

\* a try block without its except clause
Caught_Reraise(r) == r

\* server.py 125-129: except Exception as e
Caught(r) ==
    IF r.raised # "" THEN Result(FALSE, NoVal, "Verification error") ELSE r

\* X402Server.verify_payment_header (server.py 75-129)
verify_payment_header(h) ==
    IF h.kind \in {"absent", "empty"}
    THEN Result(FALSE, NoVal, "Missing X-PAYMENT header")
    ELSE Caught(TryVerify(h))

\* the calls verify_payment_header makes on its way to the result
VerifyCalls(h) ==
    IF h.kind \in {"absent", "empty"} THEN {}
    ELSE IF h.kind \in {"notjson", "nonobject"} THEN {"json.loads"}
    ELSE IF ~Complete(h) THEN {"json.loads", "all"}
    ELSE IF h.challenge.form # "ok" THEN {"json.loads", "all", "PaymentChallenge"}
    ELSE {"json.loads", "all", "PaymentChallenge", "encode_payment_message",
          "verify_signature"}

\* the arguments of the payment_required decorators of the application
Endpoint(price, currency, chain_id, description) ==
    [price |-> price, currency |-> currency, chain_id |-> chain_id,
     description |-> description]
Endpoints ==
    {Endpoint("0.01", NoVal, NoChain, NoVal), Endpoint("5", "DAI", 1, "fee")}

\* server.py 68: currency or self.config.currency
OrStr(a, d) == IF a \in {NoVal, ""} THEN d ELSE a
\* server.py 69: chain_id or self.config.chain_id
OrInt(a, d) == IF a \in {NoChain, 0} THEN d ELSE a

\* X402Server.create_challenge (server.py 47-73) for the endpoint's arguments;
\* generate_nonce() yields a nonce no earlier challenge carries
ChallengeOf(cfg, e) ==
    Challenge(e.price, OrStr(e.currency, cfg.currency),
              OrInt(e.chain_id, cfg.chain_id), cfg.merchant_address, Now,
              e.description, Cardinality(issued) + 1)
\* create_challenge of the global server instance
create_challenge(e) == ChallengeOf(config, e)


\* create_challenge for endpoint e with nonce n
Demand(e, n) == [create_challenge(e) EXCEPT !.nonce = n]

\* challenges that differ from c in one field (the merchant once by letter
\* case only, once by address)
Forged(c) ==
    {[c EXCEPT !.price = "9"], [c EXCEPT !.currency = "EUR"],
     [c EXCEPT !.chain_id = 137], [c EXCEPT !.merchant = "0xdef"],
     [c EXCEPT !.merchant = "0xabc"]}

\* the challenges a client can embed in a proof: what the server issues (a
\* nonce of 0 is one it never issued) and forgeries of it
ProofChallenges ==
    {Demand(e, n) : e \in Endpoints, n \in 0..MaxIssued}
    \cup UNION {Forged(Demand(e, 1)) : e \in Endpoints}
    \cup {[Demand(e, 1) EXCEPT !.merchant = "0xzz"] : e \in Endpoints}
    \cup {MalformedChallenge}

\* signatures over the embedded challenge and over a challenge of another price
SignaturesFor(c) ==
    {GarbageSignature, Sign(1, encode_payment_message(c)),
     Sign(2, encode_payment_message(c)),
     Sign(1, encode_payment_message([c EXCEPT !.price = "0"]))}

Signers == {"0xK1", "0xk1", "0xK2"}

\* headers that lack a part of the proof
IncompleteHeaders ==
    LET c == Demand(Endpoint("0.01", NoVal, NoChain, NoVal), 1) IN
    {Header("object", sg, sr, ch) :
        sg \in {NoSignature, EmptySignature, Sign(1, encode_payment_message(c))},
        sr \in {NoVal, "", "0xK1"},
        ch \in {NoChallenge, EmptyChallenge, c}}
    \ {Header("object", Sign(1, encode_payment_message(c)), "0xK1", c)}

\* what a client can put in the X-PAYMENT header
Headers ==
    {Header(k, NoSignature, NoVal, NoChallenge) :
        k \in {"absent", "empty", "notjson", "nonobject"}}
    \cup IncompleteHeaders
    \cup UNION {{Header("object", sg, sr, c) : sg \in SignaturesFor(c), sr \in Signers} :
                c \in ProofChallenges}

Response(e, h, status, detail, ch, verified, handler) ==
    [endpoint |-> e, header |-> h, status |-> status, detail |-> detail,
     challenge |-> ch, verified |-> verified, handler |-> handler]

\* a guard that looks only at the presence of the header
Verdict_PresenceOnly(h) == TRUE

\* a verifier that accepts a proof only for a challenge the server issued
Verdict_IssuedOnly(h) == verify_payment_header(h).valid /\ h.challenge \in issued

\* decorators.py 72: the verdict the wrapper acts on
Verdict(h) == verify_payment_header(h).valid

\* payment_required.wrapper (decorators.py 53-79) for endpoint e, header h
wrapper(e, h) ==
    IF h.kind \in {"absent", "empty"}
    THEN Response(e, h, 402, "Payment Required", create_challenge(e), "none", FALSE)
    ELSE IF ~Verdict(h)
    THEN Response(e, h, 402,
                  IF verify_payment_header(h).error \in {NoVal, ""}
                  THEN "Invalid payment" ELSE verify_payment_header(h).error,
                  NoChallenge, "invalid", FALSE)
    ELSE Response(e, h, 200, "", NoChallenge, "valid", TRUE)

HttpInit ==
    /\ config = [merchant_address |-> "0xAbC", chain_id |-> 8453, currency |-> "USDC"]
    /\ issued = {}
    /\ resp = Response(Endpoint("", NoVal, NoChain, NoVal), NoHeader, 0, "", NoChallenge,
                       "none", FALSE)

\* one request to a guarded endpoint
GuardedRequest(e, h) ==
    /\ h.kind \in {"absent", "empty"} => Cardinality(issued) < MaxIssued
    /\ resp' = wrapper(e, h)
    /\ issued' = (IF h.kind \in {"absent", "empty"}
                  THEN issued \cup {create_challenge(e)} ELSE issued)
    /\ UNCHANGED <<config, wsvars, extvars>>

HttpNext == \E e \in Endpoints, h \in Headers : GuardedRequest(e, h)

\* ------------- client wrappers: client.py, requests_wrapper.py, httpx_wrapper.py
Wrappers ==
    {"X402Client", "patch_requests", "X402Session", "httpx_sync", "httpx_async"}
\* how the wrapper gets its payment: a handler callback, or (X402Client with
\* ws_port) the signing coordinator
Modes(w) == IF w = "X402Client" THEN {"handler", "ws"} ELSE {"handler"}

\* the headers argument of a call: not passed, None, or a dict that may hold
\* an Authorization header and an X-PAYMENT header of an earlier payment
Hdr(kind, auth, payment) == [kind |-> kind, auth |-> auth, payment |-> payment]
CallerHeaders ==
    {Hdr("absent", NoVal, NoVal), Hdr("none", NoVal, NoVal),
     Hdr("dict", NoVal, NoVal), Hdr("dict", "Bearer", NoVal),
     Hdr("dict", "Bearer", "stale")}
Methods == {"GET", "POST"}
Bodies == {NoVal, "data"}

\* an underlying request: self.client.request / original_request(method, url,
\* **kwargs)
Req(method, headers, body) ==
    [method |-> method, url |-> "url", headers |-> headers, body |-> body]

\* a response of the server; id tells the first response from the retry's
HttpResp(id, status, body) == [id |-> id, status |-> status, body |-> body]
NoResp == HttpResp(0, 0, "")
\* bodies of a 402: a challenge, a challenge object PaymentChallenge rejects,
\* no challenge key, an empty challenge, text that is no JSON, JSON that is
\* no object
FirstResponses ==
    {HttpResp(1, 200, "ok"), HttpResp(1, 403, "ok")}
    \cup {HttpResp(1, 402, b) :
             b \in {"challenge", "badchallenge", "nochallenge", "emptychallenge",
                    "notjson", "nonobject"}}
RetryResponses == {HttpResp(2, 200, "ok"), HttpResp(2, 402, "challenge")}
\* what the payment handler yields: a payment, None, an empty value, or an
\* exception
HandlerOutcomes == {"payment", NoVal, "", "raise"}
\* what the signing path yields: in ws mode request_signature can also end
\* with CancelledError, when stop() cancels its future (ws_server.py 214-216)
SigningOutcomes(mode) ==
    IF mode = "ws" THEN HandlerOutcomes \cup {"cancelled"} ELSE HandlerOutcomes

\* what the call gives back to its caller: a response, or an exception
Return(r) == [kind |-> "response", resp |-> r, exc |-> ""]
Raised(e) == [kind |-> "raised", resp |-> NoResp, exc |-> e]
NoReturn == [kind |-> "none", resp |-> NoResp, exc |-> ""]

NoCli ==
    [pc |-> "none", w |-> "", mode |-> "", method |-> "", body |-> NoVal,
     headers |-> Hdr("absent", NoVal, NoVal), sent |-> <<>>, first |-> NoResp,
     handled |-> 0, payment |-> NoVal, ws |-> FALSE, ret |-> NoReturn]

\* a wrapper without an except clause
CatchesAll_None(w) == FALSE

\* client.py 192: except Exception; the other wrappers catch ValueError,
\* KeyError and JSONDecodeError only
CatchesAll(w) == w = "X402Client"

\* a test for any status that is no success
Is402_AnyError(r) == r.status # 200

\* response.status_code == 402
Is402(r) == r.status = 402

\* a test for None only
Falsy_NoneOnly(p) == p = NoVal

\* `if not payment_header` / `if signature` / `if payment_data`
Falsy(p) == p \in {NoVal, ""}

\* response.json(), data.get("challenge") and the test of the challenge: go
\* on to the handler, return the 402, or raise
Parse(w, r) ==
    IF r.body = "notjson" THEN "return"
    ELSE IF r.body = "nonobject" THEN (IF CatchesAll(w) THEN "return" ELSE "raise")
    ELSE IF r.body \in {"nochallenge", "emptychallenge"} THEN "return"
    ELSE IF r.body = "badchallenge" /\ w = "X402Client" THEN "return"
    ELSE "handler"

\* headers that keep nothing of the caller's
RetryHeaders_Fresh(w, h, p) == Hdr("dict", NoVal, p)

\* the headers of the retry: the caller's with X-PAYMENT set; dict(None)
\* raises TypeError where None is not replaced by {} (client.py 185-188,
\* requests_wrapper.py 60-66 and 120-126, httpx_wrapper.py 73-74 and 95-96)
RetryHeaders(w, h, p) ==
    IF h.kind = "none" /\ w # "X402Client" THEN Hdr("TypeError", NoVal, NoVal)
    ELSE Hdr("dict", h.auth, p)

\* wrappers that all write into the mapping they were passed
InPlace_Always(w) == TRUE

\* the X-PAYMENT header is written into the caller's mapping (client.py
\* 185-188); the other wrappers write into headers.copy() or dict(headers)
\* (requests_wrapper.py 60-66 and 120-126, httpx_wrapper.py 73-74 and 95-96)
InPlace(w) == w = "X402Client"

\* a call of the wrapper: its first underlying request is sent
ClientRequest(w, mode, m, b, h) ==
    /\ cli.pc \in {"none", "done"}
    /\ cli' = [NoCli EXCEPT !.pc = "first", !.w = w, !.mode = mode, !.method = m,
                            !.body = b, !.headers = h, !.sent = <<Req(m, h, b)>>]
    /\ UNCHANGED <<wsvars, httpvars, out, env, server_instance, xc>>

\* the first response arrives: returned at once when it is no 402;
\* otherwise parsed, and the handler is invoked when it holds a challenge
\* (through the signing coordinator, started now, in ws mode)
FirstResponse(r) ==
    /\ cli.pc = "first"
    /\ cli' =
          IF ~Is402(r) \/ Parse(cli.w, r) = "return"
          THEN [cli EXCEPT !.pc = "done", !.first = r, !.ret = Return(r)]
          ELSE IF Parse(cli.w, r) = "raise"
          THEN [cli EXCEPT !.pc = "done", !.first = r,
                           !.ret = Raised("AttributeError")]
          ELSE [cli EXCEPT !.pc = "handler", !.first = r, !.handled = 1,
                           !.ws = (cli.mode = "ws")]
    /\ UNCHANGED <<wsvars, httpvars, out, env, server_instance, xc>>

\* the handler yields p: an exception ends the call (swallowed by
\* X402Client, which returns the 402), no payment returns the 402, a
\* payment is put in the headers and the retry is sent; CancelledError is
\* no Exception: neither client.py 146 nor 192 catches it
HandlerReturn(p) ==
    /\ cli.pc = "handler"
    /\ p \in SigningOutcomes(cli.mode)
    /\ cli' =
          IF p = "cancelled"
          THEN [cli EXCEPT !.pc = "done", !.payment = p,
                           !.ret = Raised("CancelledError")]
          ELSE IF p = "raise"
          THEN [cli EXCEPT !.pc = "done", !.payment = p,
                           !.ret = IF CatchesAll(cli.w) THEN Return(cli.first)
                                   ELSE Raised("handler")]
          ELSE IF Falsy(p)
          THEN [cli EXCEPT !.pc = "done", !.payment = p, !.ret = Return(cli.first)]
          ELSE IF RetryHeaders(cli.w, cli.headers, p).kind = "TypeError"
          THEN [cli EXCEPT !.pc = "done", !.payment = p, !.ret = Raised("TypeError")]
          ELSE [cli EXCEPT
                  !.pc = "retry", !.payment = p,
                  !.headers = IF InPlace(cli.w) /\ @.kind = "dict"
                              THEN RetryHeaders(cli.w, @, p) ELSE @,
                  !.sent = Append(@, Req(cli.method,
                                         RetryHeaders(cli.w, cli.headers, p),
                                         cli.body))]
    /\ UNCHANGED <<wsvars, httpvars, out, env, server_instance, xc>>

\* the retry's response is returned as it is
RetryResponse(r) ==
    /\ cli.pc = "retry"
    /\ cli' = [cli EXCEPT !.pc = "done", !.ret = Return(r)]
    /\ UNCHANGED <<wsvars, httpvars, out, env, server_instance, xc>>

\* the retry fails in the transport: X402Client swallows the exception and
\* returns the 402 (client.py 191-197), the other wrappers let it through
RetryFails ==
    /\ cli.pc = "retry"
    /\ cli' = [cli EXCEPT !.pc = "done",
                          !.ret = IF CatchesAll(cli.w) THEN Return(cli.first)
                                  ELSE Raised("transport")]
    /\ UNCHANGED <<wsvars, httpvars, out, env, server_instance, xc>>

ClientNext ==
    \/ \E w \in Wrappers, m \in Methods, b \in Bodies, h \in CallerHeaders :
          \E mode \in Modes(w) : ClientRequest(w, mode, m, b, h)
    \/ \E r \in FirstResponses : FirstResponse(r)
    \/ \E p \in HandlerOutcomes \cup {"cancelled"} : HandlerReturn(p)
    \/ \E r \in RetryResponses : RetryResponse(r)
    \/ RetryFails

\* ------------------------------- the issuer and the global server instance
\* PaymentConfig (types.py 43-48); chain_id and currency have defaults
PaymentConfig(merchant_address, chain_id, currency) ==
    [merchant_address |-> merchant_address, chain_id |-> chain_id,
     currency |-> currency]
\* config = None
NoConfig == PaymentConfig(NoVal, NoChain, NoVal)
\* the configurations an application can pass; PaymentConfig accepts any str
Configs ==
    {PaymentConfig("0xAbC", 8453, "USDC"), PaymentConfig("0xdef", 1, "DAI"),
     PaymentConfig("", 8453, "USDC")}
\* values of X402_MERCHANT_ADDRESS: unset, empty, an address
EnvValues == {NoVal, "", "0xdef"}

\* _server_instance: None, or a server with its config
Instance(cfg) == [set |-> TRUE, config |-> cfg]
NoInstance == [set |-> FALSE, config |-> NoConfig]

CfgCall(op, cfg, result, raised) ==
    [op |-> op, config |-> cfg, result |-> result, raised |-> raised]

\* X402Server._load_config_from_env (server.py 31-45)
load_config_from_env ==
    IF env \in {NoVal, ""} THEN CfgCall("load", NoConfig, NoInstance, "ValueError")
    ELSE CfgCall("load", NoConfig, Instance(PaymentConfig(env, 8453, "USDC")), "")

\* X402Server(config) (server.py 16-29): the server built, or the exception
X402Server(cfg) ==
    IF cfg = NoConfig THEN load_config_from_env
    ELSE CfgCall("init", cfg, Instance(cfg), "")

\* X402Server(config=config, waas_provider=waas_provider) of decorators.py
\* 19: __init__ (server.py 16-19) has no such parameter
X402ServerKw(cfg) == CfgCall("init", cfg, NoInstance, "TypeError")

\* os.environ as the process finds it
SetEnv(v) ==
    /\ env' = v
    /\ UNCHANGED <<wsvars, httpvars, out, cli, server_instance, xc>>

\* server = X402Server(config)
Construct(cfg) ==
    /\ out' = [X402Server(cfg) EXCEPT !.op = "X402Server", !.config = cfg]
    /\ UNCHANGED <<wsvars, httpvars, cli, env, server_instance, xc>>

\* configure_server(config) (decorators.py 16-19); the assignment to
\* _server_instance happens only when the constructor returns
configure_server(cfg) ==
    /\ out' = [X402ServerKw(cfg) EXCEPT !.op = "configure_server", !.config = cfg]
    /\ server_instance' =
          (IF X402ServerKw(cfg).raised = "" THEN X402ServerKw(cfg).result
           ELSE server_instance)
    /\ UNCHANGED <<wsvars, httpvars, cli, env, xc>>

\* get_server() (decorators.py 22-27): the instance returned, or the exception
get_server ==
    IF server_instance.set THEN CfgCall("get_server", NoConfig, server_instance, "")
    ELSE [X402Server(NoConfig) EXCEPT !.op = "get_server"]

GetServer ==
    /\ out' = get_server
    /\ server_instance' = get_server.result
    /\ UNCHANGED <<wsvars, httpvars, cli, env, xc>>

\* a request without X-PAYMENT to a guarded endpoint (decorators.py 54-67):
\* the challenge is made by the server get_server() returns
GuardedChallenge(e) ==
    /\ Cardinality(issued) < MaxIssued
    /\ get_server.raised = ""
    /\ server_instance' = get_server.result
    /\ config' = get_server.result.config
    /\ resp' = Response(e, NoHeader, 402, "Payment Required",
                        ChallengeOf(get_server.result.config, e), "none", FALSE)
    /\ issued' = issued \cup {ChallengeOf(get_server.result.config, e)}
    /\ out' = get_server
    /\ UNCHANGED <<wsvars, cli, env, xc>>

CfgNext ==
    \/ \E v \in EnvValues : SetEnv(v)
    \/ \E cfg \in Configs \cup {NoConfig} : Construct(cfg)
    \/ \E cfg \in Configs \cup {NoConfig} : configure_server(cfg)
    \/ GetServer
    \/ \E e \in Endpoints : GuardedChallenge(e)

\* ------------------------------------ calls of utils.py and create_challenge
\* challenge records handed to create_payment_message: any merchant string,
\* the description given, empty, None or missing
MessageInputs ==
    {Challenge(p, "USDC", 8453, m, Now, d, 1) :
        p \in Prices, m \in Merchants \cup MalformedMerchants,
        d \in {"fee", "", NoVal, Missing}}

\* the arguments create_challenge can be called with
ChallengeArgs ==
    {Endpoint(p, cu, ch, d) :
        p \in {"0.01"}, cu \in {NoVal, "", "DAI"}, ch \in {NoChain, 0, 1},
        d \in {NoVal, "fee"}}

UtilCall(op, c, args, msg, result, raised) ==
    [op |-> op, challenge |-> c, args |-> args, msg |-> msg, result |-> result,
     raised |-> raised]
NoUtilCall == UtilCall("none", NoChallenge, Endpoint("", NoVal, NoChain, NoVal), <<>>,
               NoChallenge, "")

\* message = create_payment_message(c)
CreatePaymentMessage(c) ==
    /\ out' = UtilCall("create_payment_message", c, NoUtilCall.args,
                   create_payment_message(c), NoChallenge, "")
    /\ UNCHANGED <<wsvars, httpvars, cli, env, server_instance, xc>>

\* message_hash = encode_payment_message(c)
EncodePaymentMessage(c) ==
    /\ out' = UtilCall("encode_payment_message", c, NoUtilCall.args,
                   create_payment_message(c), NoChallenge,
                   IF EncodeRaises(c) THEN "EncodingTypeError" ELSE "")
    /\ UNCHANGED <<wsvars, httpvars, cli, env, server_instance, xc>>

\* challenge = server.create_challenge(price, currency, chain_id, description)
CreateChallenge(e) ==
    /\ Cardinality(issued) < MaxIssued
    /\ out' = UtilCall("create_challenge", NoChallenge, e, <<>>, create_challenge(e), "")
    /\ issued' = issued \cup {create_challenge(e)}
    /\ UNCHANGED <<wsvars, config, resp, cli, env, server_instance, xc>>

UtilNext ==
    \/ \E c \in MessageInputs : CreatePaymentMessage(c)
    \/ \E c \in MessageInputs : EncodePaymentMessage(c)
    \/ \E e \in ChallengeArgs : CreateChallenge(e)

\* -------------------- X402Client: signing path and coordinators (client.py)
\* concurrent request() calls that handle a 402, coordinators one client
\* constructs
MaxTasks == 2
MaxInsts == 3
Tasks == 1..MaxTasks
Insts == 1..MaxInsts
NoInst == 0
\* ws_port = None
NoPort == -1
Handlers == {"h1", "h2"}
ClientPorts == {0, DefaultPort}
WsPaths == {"/x402/ws", "/other"}

\* `not self.ws_port`, `if self.ws_port:` (client.py 49, 79, 126)
TruthyPort(p) == p \notin {NoPort, 0}
\* `not self.rpc_handler`, `if self.rpc_handler:` (client.py 49, 85)
TruthyHandler(h) == h # NoVal

XcCall(op, h, p, raised) == [op |-> op, h |-> h, p |-> p, raised |-> raised]
NoXcCall == XcCall("none", NoVal, NoPort, "")
IdleTask == [pc |-> "idle", mine |-> NoInst, used |-> NoInst]
NoXc ==
    [made |-> FALSE, rpc_handler |-> NoVal, ws_port |-> NoPort, ws_path |-> "",
     ws_server |-> NoInst, inst |-> [k \in Insts |-> "unused"],
     task |-> [t \in Tasks |-> IdleTask], closePc |-> "idle",
     closeInst |-> NoInst, last |-> NoXcCall]

\* a constructor that accepts a client without a signing path
InitRaises_Never(h, p) == FALSE

\* client.py 49-50
InitRaises(h, p) == ~TruthyHandler(h) /\ ~TruthyPort(p)

\* X402Client(base_url, rpc_handler=h, ws_port=p, ws_path=path) (19-50)
NewClient(h, p, path) ==
    /\ ~xc.made
    /\ xc' = IF InitRaises(h, p)
             THEN [xc EXCEPT !.last = XcCall("init", h, p, "ValueError")]
             ELSE [xc EXCEPT !.made = TRUE, !.rpc_handler = h, !.ws_port = p,
                             !.ws_path = path, !.last = XcCall("init", h, p, "")]
    /\ UNCHANGED <<wsvars, httpvars, out, cli, env, server_instance>>

\* set_rpc_handler(handler) (52-55)
SetRpcHandler(h) ==
    /\ xc.made
    /\ xc' = [xc EXCEPT !.rpc_handler = h, !.ws_port = NoPort,
                        !.last = XcCall("set_rpc_handler", h, NoPort, "")]
    /\ UNCHANGED <<wsvars, httpvars, out, cli, env, server_instance>>

\* set_ws_server(port, path) (57-61)
SetWsServer(p, path) ==
    /\ xc.made
    /\ xc' = [xc EXCEPT !.ws_port = p, !.ws_path = path, !.rpc_handler = NoVal,
                        !.last = XcCall("set_ws_server", NoVal, p, "")]
    /\ UNCHANGED <<wsvars, httpvars, out, cli, env, server_instance>>

\* X402WebSocketServer.is_running() of instance k
IsRunning(k) == xc.inst[k] = "running"
\* the listening endpoint of instance k is open: from serve() to
\* self.server.close()
HoldsPort(k) == xc.inst[k] \in {"running", "stopping"}

\* a new X402WebSocketServer object
NewInst == CHOOSE k \in Insts :
              xc.inst[k] = "unused" /\ \A j \in Insts : xc.inst[j] = "unused" => k <= j

\* client.py 134: not self.ws_server or not self.ws_server.is_running()
NeedsServer == xc.ws_server = NoInst \/ ~IsRunning(xc.ws_server)

\* client.py 126-143, up to the first await: a request() call that got a 402
\* enters _request_via_websocket_server; it constructs a coordinator, assigns
\* it and suspends in start(), or calls request_signature on self.ws_server
BeginSign(t) ==
    /\ xc.made
    /\ TruthyPort(xc.ws_port)
    /\ xc.closePc \in {"idle", "aclose"}
    /\ xc.task[t].pc = "idle"
    /\ IF NeedsServer
       THEN /\ \E k \in Insts : xc.inst[k] = "unused"
            /\ xc' = [xc EXCEPT !.inst[NewInst] = "starting",
                                !.ws_server = NewInst,
                                !.task[t] = [pc |-> "starting", mine |-> NewInst,
                                             used |-> NoInst]]
       ELSE xc' = [xc EXCEPT !.task[t] = [pc |-> "signing", mine |-> NoInst,
                                          used |-> xc.ws_server]]
    /\ UNCHANGED <<wsvars, httpvars, out, cli, env, server_instance>>

\* serve() of instance k fails with OSError: the port is held by the open
\* endpoint of another instance
PortTaken(k) == \E j \in Insts \ {k} : HoldsPort(j)

\* ws_server.py 110-111 and client.py 140-143: serve() of the coordinator the
\* call constructed ends; on success running is set and the call goes on to
\* self.ws_server.request_signature, on whatever self.ws_server is by then
\* (None raises AttributeError)
ServeDone(t) ==
    /\ xc.task[t].pc = "starting"
    /\ LET k == xc.task[t].mine IN
        xc' = IF PortTaken(k)
              THEN [xc EXCEPT !.inst[k] = "failed", !.task[t].pc = "done"]
              ELSE IF xc.ws_server = NoInst
              THEN [xc EXCEPT !.inst[k] = "running", !.task[t].pc = "done"]
              ELSE [xc EXCEPT !.inst[k] = "running", !.task[t].pc = "signing",
                              !.task[t].used = xc.ws_server]
    /\ UNCHANGED <<wsvars, httpvars, out, cli, env, server_instance>>

\* client.py 143-147: request_signature returns or raises
EndSign(t) ==
    /\ xc.task[t].pc = "signing"
    /\ xc' = [xc EXCEPT !.task[t].pc = "done"]
    /\ UNCHANGED <<wsvars, httpvars, out, cli, env, server_instance>>

\* a later request() call, made while the client is open
Again(t) ==
    /\ xc.task[t].pc = "done"
    /\ xc.closePc = "idle"
    /\ xc' = [xc EXCEPT !.task[t] = IdleTask]
    /\ UNCHANGED <<wsvars, httpvars, out, cli, env, server_instance>>

\* close() (207-209): suspended in self.client.aclose()
CloseBegin ==
    /\ xc.made
    /\ xc.closePc = "idle"
    /\ xc' = [xc EXCEPT !.closePc = "aclose"]
    /\ UNCHANGED <<wsvars, httpvars, out, cli, env, server_instance>>

\* close() (210-212) calls stop() on self.ws_server: a running coordinator
\* suspends stop() in the close of a connection (conns) or, its endpoint
\* closed, in wait_closed; one without a server handle returns at once and
\* self.ws_server is reset
CloseStop(conns) ==
    /\ xc.closePc = "aclose"
    /\ xc' = IF xc.ws_server = NoInst
             THEN [xc EXCEPT !.closePc = "done"]
             ELSE IF IsRunning(xc.ws_server)
             THEN [xc EXCEPT !.closePc = "stop", !.closeInst = xc.ws_server,
                             !.inst[xc.ws_server] =
                                 IF conns THEN "stopping" ELSE "closing"]
             ELSE [xc EXCEPT !.closePc = "done", !.ws_server = NoInst]
    /\ UNCHANGED <<wsvars, httpvars, out, cli, env, server_instance>>

\* stop() of the coordinator goes on (ws_server.py 206-222); when it has
\* returned, close() sets self.ws_server = None (client.py 212)
StopStep ==
    /\ xc.closePc = "stop"
    /\ xc' = IF xc.inst[xc.closeInst] = "stopping"
             THEN [xc EXCEPT !.inst[xc.closeInst] = "closing"]
             ELSE [xc EXCEPT !.inst[xc.closeInst] = "stopped",
                             !.ws_server = NoInst, !.closePc = "done"]
    /\ UNCHANGED <<wsvars, httpvars, out, cli, env, server_instance>>

XcNext ==
    \/ \E h \in Handlers \cup {NoVal}, p \in ClientPorts \cup {NoPort},
          path \in WsPaths : NewClient(h, p, path)
    \/ \E h \in Handlers \cup {NoVal} : SetRpcHandler(h)
    \/ \E p \in ClientPorts \cup {NoPort}, path \in WsPaths : SetWsServer(p, path)
    \/ \E t \in Tasks : BeginSign(t)
    \/ \E t \in Tasks : ServeDone(t)
    \/ \E t \in Tasks : EndSign(t)
    \/ \E t \in Tasks : Again(t)
    \/ CloseBegin
    \/ \E conns \in BOOLEAN : CloseStop(conns)
    \/ StopStep

ExtInit ==
    /\ xc = NoXc
    /\ out = NoUtilCall
    /\ cli = NoCli
    /\ env = NoVal
    /\ server_instance = NoInstance

Init == WsInitAt({DefaultPort}) /\ HttpInit /\ ExtInit

Next == RequestNext

\* the signing coordinator while it runs: no stop()
Spec == Init /\ [][Next]_vars

\* the number of request_signature calls made so far
Calls == Cardinality({i \in Ids : call[i].pc # "none"})

\* the coordinator with stop(): the same steps, MaxStopReqs calls
StopSpecNext ==
    \/ Start
    \/ \E h \in Handles : Accept(h)
    \/ \E h \in Handles : AcceptBadPath(h)
    \/ \E c \in ConnIds : Disconnect(c)
    \/ \E c \in ConnIds, m \in Messages : Effective(m) /\ Receive(c, m)
    \/ RequestNoSigner
    \/ Calls < MaxStopReqs /\ RequestSignature
    \/ \E i \in Ids, ok \in BOOLEAN : SendDone(i, ok)
    \/ Tick
    \/ \E i \in Ids : TimerFire(i)
    \/ \E i \in Ids : ResumeTimeout(i)
    \/ \E i \in Ids : Resume(i)
    \/ StopNext

StopSpec == Init /\ [][StopSpecNext]_vars

\* the event loop runs every callback that is ready, timers fire, time
\* advances, and a send ends (the keepalive of the transport closes a
\* connection that does not drain)
Fairness ==
    /\ WF_vars(Tick)
    /\ \A i \in Ids :
        /\ WF_vars(\E ok \in BOOLEAN : SendDone(i, ok))
        /\ WF_vars(TimerFire(i))
        /\ WF_vars(ResumeTimeout(i))
        /\ WF_vars(Resume(i))

LiveSpec == StopSpec /\ Fairness

\* start, stop and connections of a coordinator on any port
LifeInit == WsInitAt(Ports) /\ HttpInit /\ ExtInit

LifeNext ==
    \/ Start
    \/ \E h \in Handles : Accept(h)
    \/ \E c \in ConnIds : Disconnect(c)
    \/ Calls < MaxStopReqs /\ RequestSignature
    \/ \E i \in Ids, ok \in BOOLEAN : SendDone(i, ok)
    \/ \E i \in Ids : Resume(i)
    \/ StopNext

LifeSpec == LifeInit /\ [][LifeNext]_vars

\* every payload a peer can send, MaxStopReqs calls
MsgNext ==
    \/ Start
    \/ \E h \in Handles : Accept(h)
    \/ \E c \in ConnIds : Disconnect(c)
    \/ \E c \in ConnIds, m \in Messages : Receive(c, m)
    \/ Calls < MaxStopReqs /\ RequestSignature
    \/ \E i \in Ids, ok \in BOOLEAN : SendDone(i, ok)
    \/ Tick
    \/ \E i \in Ids : TimerFire(i)
    \/ \E i \in Ids : ResumeTimeout(i)
    \/ \E i \in Ids : Resume(i)

MsgSpec == Init /\ [][MsgNext]_vars

\* the coordinator with stop() and with callers that cancel their calls
CancelNext ==
    \/ StopSpecNext
    \/ \E i \in Ids : CancelCaller(i)

CancelSpec == Init /\ [][CancelNext]_vars

\* the payment guard
SpecHttp == Init /\ [][HttpNext]_vars

\* the message encoder and the challenge issuer, called on their own
UtilSpec == Init /\ [][UtilNext]_vars

\* the client wrappers
ClientSpec == Init /\ [][ClientNext]_vars

\* the construction of servers and of the global server instance
CfgSpec == Init /\ [][CfgNext]_vars

\* one X402Client: its configuration, its requests and its close()
XcSpec == Init /\ [][XcNext]_vars


\* ============================================================ claims

\* ---- C1 (SpecHttp)
VerificationErrors ==
    {"Missing X-PAYMENT header", "Verification error",
     "Invalid payment header format", "Signature verification failed"}

\* the proof of a header is a genuine signature of its claimed signer over
\* the hash of the challenge it embeds
GenuineProof(h) ==
    /\ h.kind = "object"
    /\ h.signature.form = "sig"
    /\ h.challenge.form = "ok"
    /\ h.signature.over = encode_payment_message(h.challenge)
    /\ Lower(Address(h.signature.key)) = Lower(h.signer)

\* C1: the route handler of a guarded endpoint is invoked only for a request
\* whose X-PAYMENT header verified as valid; a request without the header is
\* answered 402 with a freshly issued challenge and no handler call; a request
\* whose header fails verification is answered 402 carrying the verification
\* error string and no handler call.
C1_HandlerOnlyAfterValidPayment ==
    /\ resp.handler =>
          /\ resp.verified = "valid"
          /\ resp.status = 200
          /\ GenuineProof(resp.header)
    /\ (resp.status # 0 /\ resp.header.kind \in {"absent", "empty"}) =>
          /\ ~resp.handler
          /\ resp.status = 402
          /\ resp.challenge.form = "ok"
          /\ resp.challenge \in issued
    /\ (resp.status # 0 /\ resp.header.kind \notin {"absent", "empty"}
        /\ ~GenuineProof(resp.header)) =>
          /\ ~resp.handler
          /\ resp.status = 402
          /\ resp.verified = "invalid"
          /\ resp.detail \in VerificationErrors
          /\ resp.detail = verify_payment_header(resp.header).error

\* C1 witness: the handler ran for a request carrying a valid proof
C1_Witness == resp.handler /\ resp.verified = "valid"

\* ---- C2 (SpecHttp)
\* the challenge demands what endpoint e demands
MeetsDemand(c, e) ==
    /\ c.form = "ok"
    /\ c.price = e.price
    /\ c.currency = (IF e.currency = NoVal THEN config.currency ELSE e.currency)
    /\ c.chain_id = (IF e.chain_id = NoChain THEN config.chain_id ELSE e.chain_id)
    /\ Lower(c.merchant) = Lower(config.merchant_address)

\* C2: a proof unlocks a guarded endpoint only if the challenge it embeds is
\* one the server issued and demands the endpoint's price, currency, chain id
\* and merchant.
C2_OnlyTheIssuedChallengeUnlocks ==
    resp.handler =>
        /\ resp.header.challenge \in issued
        /\ MeetsDemand(resp.header.challenge, resp.endpoint)


\* ---- C3 (Spec)
\* C3: request_signature called while the connection registry is empty raises
\* ConnectionError in the same step: no request is created or left waiting,
\* no message is sent and the pending-request registry is unchanged.
C3_NoSignerFailsAtOnce ==
    [][(ev'.op = "request_signature" /\ clients = <<>>) =>
          /\ ev'.raised = "ConnectionError"
          /\ ev'.sent = {}
          /\ ev'.i = NoId
          /\ pending_requests' = pending_requests
          /\ call' = call
          /\ fut' = fut]_vars

\* C3 witness: a call was made with no connection registered and was refused
C3_Witness ==
    /\ ev.op = "request_signature"
    /\ ev.raised = "ConnectionError"
    /\ clients = <<>>
    /\ running

\* ---- C4 (LiveSpec)
InFlight(i) == call[i].pc \in {"sending", "waiting", "expired"}

\* C4 as stated: every outcome delivered to a caller of request_signature is
\* a success, a failure carried by a response, a TimeoutError or a
\* cancellation by stop().
C4_OneOfFourOutcomes ==
    ev.result.kind \in {"none", "success", "error", "timeout", "cancelled"}

C4_Step ==
    /\ \A i \in Ids :
          /\ (call[i].pc # "done" /\ call'[i].pc = "done") =>
                /\ InFlight(i)
                /\ ev'.i = i
                /\ ev'.result.kind \in {"success", "error", "timeout",
                                        "cancelled", "sendfail"}
          /\ call[i].pc = "done" =>
                /\ call'[i].pc = "done"
                /\ ev' # ev => ~(ev'.i = i /\ ev'.result.kind # "none")
    /\ (ev' # ev /\ ev'.result.kind # "none") =>
          /\ InFlight(ev'.i)
          /\ call'[ev'.i].pc = "done"

\* C4 (amended): every request_signature call that created a correlation id
\* is delivered exactly one outcome -- success or failure from a message
\* carrying its id, TimeoutError, cancellation by stop(), or the failure of
\* the send -- and under a fair event loop it is delivered eventually.
C4_ExactlyOneOutcome ==
    /\ [][C4_Step]_vars
    /\ \A i \in Ids : InFlight(i) ~> (call[i].pc = "done")

\* C4 witness: a call suspended in wait_for was cancelled by stop()
C4_Witness ==
    /\ ev.op = "resume"
    /\ ev.result.kind = "cancelled"
    /\ ~running

\* ---- C5 (Spec)
\* the request has its terminal outcome decided
Resolved(i) ==
    \/ call[i].pc \in {"done", "expired"}
    \/ call[i].pc \in {"sending", "waiting"} /\ fut[i].st # "pending"

\* C5: handling a sign-response whose id belongs to an already resolved
\* request changes neither registry and no future, raises nothing and sends
\* no error acknowledgment -- also between the timer firing and the call
\* removing its entry.
C5_LateResponseIgnored ==
    [][(ev' # ev /\ ev'.op = "message" /\ ev'.msg.type = "sign-response"
        /\ ev'.i # NoId /\ Resolved(ev'.i)) =>
          /\ pending_requests' = pending_requests
          /\ clients' = clients
          /\ fut' = fut
          /\ ev'.raised = ""
          /\ ev'.sent = {}]_vars

\* ---- C6 (Spec)
\* C6: a call suspended in wait_for whose future stays unresolved leaves the
\* wait only through the timer, and the timer fires only when the configured
\* timeout has elapsed; the call then raises TimeoutError, its entry is
\* removed from pending_requests, and nothing else changes: the coordinator
\* keeps running, the connections and every other request are untouched.
C6_TimeoutOnlyThatRequest ==
    [][/\ \A i \in Ids :
            (call[i].pc = "waiting" /\ fut[i].st = "pending"
             /\ (call'[i].pc # "waiting" \/ fut'[i].st = "cancelled")) =>
                /\ call[i].waited = TimeoutTicks
                /\ call'[i].pc = "expired"
                /\ ev'.op = "timer"
       /\ (ev' # ev /\ ev'.op = "timer") =>
            /\ call[ev'.i].waited = TimeoutTicks
            /\ \A j \in Ids \ {ev'.i} : fut'[j] = fut[j] /\ call'[j] = call[j]
            /\ UNCHANGED <<pending_requests, clients, conn, running, server,
                           listening>>
       /\ (ev' # ev /\ ev'.result.kind = "timeout") =>
            /\ ev'.raised = "TimeoutError"
            /\ call[ev'.i].pc = "expired"
            /\ call[ev'.i].waited = TimeoutTicks
            /\ pending_requests' = pending_requests \ {ev'.i}
            /\ \A j \in Ids \ {ev'.i} : fut'[j] = fut[j] /\ call'[j] = call[j]
            /\ UNCHANGED <<clients, conn, running, server, listening>>]_vars

\* C6 witness: a call timed out while another request is still pending and
\* a connection is registered
C6_Witness ==
    /\ ev.result.kind = "timeout"
    /\ ev.i \notin pending_requests
    /\ clients # <<>>
    /\ running
    /\ \E j \in Ids \ {ev.i} :
          j \in pending_requests /\ call[j].pc = "waiting" /\ fut[j].st = "pending"

\* ---- C7 (Spec)
\* the value a message that resolves a request puts into its future
Carried(m) ==
    IF m.type = "error" THEN (IF m.error = NoVal THEN "Unknown error" ELSE m.error)
    ELSE IF m.error # NoVal THEN m.error
    ELSE IF m.result = NoVal THEN "None" ELSE m.result

\* C7: a new request gets an id no other request has or had and its own
\* pending entry; a step that resolves one request (response, error
\* response, timer) leaves every other request's future, call and pending
\* entry as they were; a future is completed only by a message carrying its
\* own id, with that message's value, and that value is what its caller gets.
C7_IndependentRequests ==
    [][/\ (ev' # ev /\ ev'.op = "request_signature" /\ ev'.i # NoId) =>
            /\ call[ev'.i].pc = "none"
            /\ ev'.i \notin pending_requests
            /\ pending_requests' = pending_requests \cup {ev'.i}
            /\ \A j \in Ids \ {ev'.i} : fut'[j] = fut[j] /\ call'[j] = call[j]
       /\ \A i \in Ids :
            (fut[i].st = "pending" /\ fut'[i].st # "pending") =>
                /\ \A j \in Ids \ {i} :
                      /\ fut'[j] = fut[j]
                      /\ call'[j].pc = call[j].pc
                      /\ (j \in pending_requests') = (j \in pending_requests)
                /\ fut'[i].st \in {"result", "exception"} =>
                      /\ ev'.op = "message"
                      /\ ev'.msg.id = i
                      /\ fut'[i].val = Carried(ev'.msg)
       /\ (ev' # ev /\ ev'.result.kind \in {"success", "error"}) =>
            /\ fut[ev'.i].st = (IF ev'.result.kind = "success"
                                THEN "result" ELSE "exception")
            /\ ev'.result.val = fut[ev'.i].val
            /\ \A j \in Ids \ {ev'.i} : fut'[j] = fut[j] /\ call'[j] = call[j]]_vars

\* C7 witness: of two requests in flight the later one has received the
\* result of its response while the earlier one is still pending
C7_Witness ==
    /\ ev.op = "resume"
    /\ ev.i = 2
    /\ ev.result = Outcome("success", "sig")
    /\ call[1].pc = "waiting"
    /\ fut[1].st = "pending"
    /\ 1 \in pending_requests

\* ---- C8 (LifeSpec)
\* C8: when stop() has completed the running flag is false, no registered
\* connection is left with close() not attempted, every request that was
\* unresolved is cancelled, both registries are empty and no endpoint of the
\* coordinator is listening.
C8_AfterStop ==
    ev.op = "stop-done" =>
        /\ ~running
        /\ clients = <<>>
        /\ pending_requests = {}
        /\ listening = {}
        /\ \A c \in ConnIds : conn[c].st = "loop" => conn[c].ws # "open"
        /\ \A i \in Ids : call[i].pc \in {"sending", "waiting"} => fut[i].st # "pending"

\* ---- C9 (LifeSpec)
\* C9: start() on a running coordinator is a no-op: it returns normally,
\* opens no second endpoint, keeps the server handle and both registries.
C9_StartIdempotent ==
    [][(ev' # ev /\ ev'.op = "start" /\ running) =>
          /\ ev'.raised = ""
          /\ server' = server
          /\ listening' = listening
          /\ running'
          /\ clients' = clients
          /\ pending_requests' = pending_requests]_vars

\* ---- C10 (Spec)
\* C10: when a connection disconnects, its entry and only its entry leaves
\* the connection registry; the pending-request registry, every future and
\* every call are unchanged, so a request dispatched to it stays pending
\* until a response with its id or its timer resolves it.
C10_DisconnectKeepsRequests ==
    [][/\ (ev' # ev /\ ev'.op = "disconnect") =>
          /\ ev'.c \in Range(clients)
          /\ clients' = SelectSeq(clients, LAMBDA x : x # ev'.c)
          /\ pending_requests' = pending_requests
          /\ fut' = fut
          /\ call' = call
       /\ \A i \in Ids :
            (call[i].pc = "waiting" /\ fut[i].st = "pending"
             /\ fut'[i].st # "pending") =>
                \/ ev'.op = "message" /\ ev'.msg.id = i
                \/ ev'.op = "timer" /\ ev'.i = i /\ call'[i].pc = "expired"]_vars

\* C10 witness: connection 1, registered first and so the one request 1 was
\* dispatched to, has disconnected; connection 2 is still registered and
\* request 1 is still pending
C10_Witness ==
    /\ ev.op = "disconnect"
    /\ ev.c = 1
    /\ clients = <<2>>
    /\ call[1].pc = "waiting"
    /\ fut[1].st = "pending"
    /\ 1 \in pending_requests


\* ---- C11 (MsgSpec)
\* C11: an inbound payload that json.loads rejects or whose processing
\* raises is answered by one error acknowledgment on the connection it came
\* from, and nothing else changes: both registries, every connection, every
\* future and every call are as before; a pong changes nothing and is not
\* answered.
C11_MalformedPayloadIsolated ==
    [][(ev' # ev /\ ev'.op = "message") =>
          /\ ev'.raised # "" =>
                /\ ev'.c \in ConnIds
                /\ ev'.sent = {Out(ev'.c, "error", NoId)}
                /\ UNCHANGED <<clients, conn, pending_requests, fut, call>>
          /\ ev'.msg.type = "pong" =>
                /\ ev'.raised = ""
                /\ ev'.sent = {}
                /\ UNCHANGED <<clients, conn, pending_requests, fut, call,
                               running, server, listening>>]_vars

\* ---- C12 (Spec)
\* C12: a sign-response without error whose id matches a request that is
\* pending resolves that request with success in the same step, whatever its
\* result field holds: the entry is removed, nothing is raised, and the
\* future holds the PaymentSignature built from the result (None when the
\* message has no result).
C12_ResponseResolvesSuccess ==
    [][(ev' # ev /\ ev'.op = "message" /\ ev'.msg.type = "sign-response"
        /\ ev'.msg.error = NoVal /\ ev'.i \in pending_requests
        /\ fut[ev'.i].st = "pending") =>
          /\ ev'.raised = ""
          /\ ev'.i \notin pending_requests'
          /\ fut'[ev'.i] = [st |-> "result", val |-> Carried(ev'.msg)]]_vars

\* ---- C13 (Spec)
\* the handler's part: the future of the request takes the error text of the
\* message as its exception and the entry is removed, whether or not the
\* message also carries a result
C13_Handled ==
    (ev' # ev /\ ev'.op = "message" /\ ev'.msg.type = "sign-response"
     /\ ev'.msg.error # NoVal /\ ev'.i \in pending_requests
     /\ fut[ev'.i].st = "pending") =>
        /\ ev'.raised = ""
        /\ ev'.i \notin pending_requests'
        /\ fut'[ev'.i] = [st |-> "exception", val |-> ev'.msg.error]

SignRequestsFor(i) == {o \in ev'.sent : o.type = "sign-request" /\ o.i = i}

\* dispatch: the call selects the head of the registry as it is then
C14_Dispatch ==
    (ev' # ev /\ ev'.op = "request_signature" /\ ev'.i # NoId) =>
        /\ clients # <<>>
        /\ ev'.c = Head(clients)
        /\ ev'.sent = {}
        /\ call'[ev'.i] = [pc |-> "sending", target |-> Head(clients), waited |-> 0]

\* a sign-request for i goes out in no step but the send of call i
C14_Exclusive ==
    \A i \in Ids :
        /\ (call[i].pc = "sending" /\ call'[i].pc = "sending") =>
              /\ call'[i].target = call[i].target
              /\ ev' # ev => SignRequestsFor(i) = {}
        /\ call[i].pc # "sending" =>
              /\ ev' # ev => SignRequestsFor(i) = {}
              /\ call'[i].pc = "sending" => call[i].pc = "none"

\* C14 as stated: every call that passes the no-signer check sends exactly
\* one sign-request with its id, to the connection that was first in the
\* registry at dispatch, and no other connection gets a message for it.
C14_ExactlyOneSignRequest ==
    [][/\ C14_Dispatch
       /\ C14_Exclusive
       /\ \A i \in Ids :
            (call[i].pc = "sending" /\ call'[i].pc # "sending") =>
                /\ ev'.op = "send"
                /\ ev'.i = i
                /\ ev'.sent = {Out(call[i].target, "sign-request", i)}]_vars

\* C14 (amended): every such call makes exactly one send, to the connection
\* that was first in the registry at dispatch; the sign-request with its id
\* goes out in that send unless the send raises (the connection has closed),
\* in which case nothing is sent, the entry is removed and the call fails;
\* no other connection gets a message for the request.
C14_OneSendToFirst ==
    [][/\ C14_Dispatch
       /\ C14_Exclusive
       /\ \A i \in Ids :
            (call[i].pc = "sending" /\ call'[i].pc # "sending") =>
                /\ ev'.op = "send"
                /\ ev'.i = i
                /\ \/ ev'.sent = {Out(call[i].target, "sign-request", i)}
                   \/ /\ ev'.sent = {}
                      /\ ev'.raised = "ConnectionClosed"
                      /\ ev'.result = Outcome("sendfail", NoVal)
                      /\ i \notin pending_requests']_vars

\* C14 witness: with two connections registered, the sign-request went to
\* the first one only
C14_Witness ==
    /\ ev.op = "send"
    /\ clients = <<1, 2>>
    /\ ev.sent = {Out(1, "sign-request", ev.i)}

\* ---- C15 (StopSpec)
\* C15: a connection accepted on the configured path gets an id no registered
\* or earlier connection has, is appended to the registry, and the first
\* message sent to it is the connected acknowledgment carrying that id; an id
\* enters the registry only this way and leaves it only when its handler
\* ends (disconnect) or stop() clears the registry.
C15_RegisteredWhileConnected ==
    /\ [][/\ (ev' # ev /\ ev'.op = "connect") =>
               /\ conn[ev'.c].st = "unused"
               /\ ev'.c \notin Range(clients)
               /\ clients' = Append(clients, ev'.c)
               /\ ev'.sent = {Out(ev'.c, "connected", ev'.c)}
          /\ \A c \in ConnIds :
               /\ (ev' # ev /\ conn[c].st = "unused") =>
                     \A o \in ev'.sent : o.to = c => ev'.op = "connect" /\ ev'.c = c
               /\ (c \in Range(clients') /\ c \notin Range(clients)) =>
                     ev'.op = "connect" /\ ev'.c = c
               /\ (c \in Range(clients) /\ c \notin Range(clients')) =>
                     \/ conn'[c].st = "gone"
                     \/ /\ ev'.op \in {"stop-close", "stop-finish", "stop-done"}
                        /\ ~running'
                        /\ clients' = <<>>]_vars
    /\ [](\A j, k \in 1..Len(clients) : clients[j] = clients[k] => j = k)
    /\ [](\A c \in Range(clients) : conn[c].st = "loop")

\* C15 witness: a second connection has been registered and acknowledged
\* while the first is still registered
C15_Witness ==
    /\ ev.op = "connect"
    /\ ev.sent = {Out(2, "connected", 2)}
    /\ clients = <<1, 2>>

\* ---- C16 (CancelSpec)
\* C16: an id is in pending_requests only while the request_signature call
\* that created it is suspended; once the call has returned or raised the id
\* is absent and stays absent.
C16_PendingOnlyWhileSuspended ==
    \A i \in pending_requests : InFlight(i)

\* ---- C17 (SpecHttp)
\* the proof of the header lacks its signature, its signer or its challenge,
\* or has it empty
Incomplete(h) ==
    /\ h.kind = "object"
    /\ \/ h.signature.form \in {"absent", "empty"}
       \/ h.signer \in {NoVal, ""}
       \/ h.challenge.form \in {"absent", "empty"}

\* C17: for a header whose proof is structurally incomplete,
\* verify_payment_header returns valid=False with the error "Invalid payment
\* header format", and neither the hash is computed nor the signature
\* recovery attempted.
C17_IncompleteProofRejected ==
    (resp.status # 0 /\ Incomplete(resp.header)) =>
        /\ verify_payment_header(resp.header) =
              Result(FALSE, NoVal, "Invalid payment header format")
        /\ VerifyCalls(resp.header)
              \cap {"PaymentChallenge", "encode_payment_message", "verify_signature"} = {}
        /\ resp.status = 402
        /\ resp.detail = "Invalid payment header format"
        /\ ~resp.handler

\* C17 witness: a proof with signature and challenge but no signer was refused
C17_Witness ==
    /\ resp.status = 402
    /\ resp.header.kind = "object"
    /\ resp.header.signature.form = "sig"
    /\ resp.header.challenge.form = "ok"
    /\ resp.header.signer = NoVal
    /\ resp.detail = "Invalid payment header format"

\* ---- C18 (SpecHttp)
\* C18: for every header value verify_payment_header returns a result and
\* raises nothing; a result that is not valid carries a non-empty error
\* string, a valid one names the signer of the header.
C18_VerifyNeverRaises ==
    resp.status # 0 =>
        LET r == verify_payment_header(resp.header) IN
        /\ r.raised = ""
        /\ r.valid \in BOOLEAN
        /\ ~r.valid => r.error \in VerificationErrors /\ r.signer = NoVal
        /\ r.valid => r.error = NoVal /\ r.signer = resp.header.signer

\* C18 witness: a header whose challenge PaymentChallenge rejects was
\* answered with a verdict
C18_Witness ==
    /\ resp.status = 402
    /\ resp.header.kind = "object"
    /\ resp.header.challenge.form = "malformed"
    /\ resp.header.signature.form = "sig"
    /\ resp.detail = "Verification error"

\* ---- C19 (SpecHttp)
\* the same address, whatever the letter case it is written in
SameAddress(a, b) == ToChecksum(a) = ToChecksum(b)

\* the signature of the header is one made over the hash of the challenge of
\* the header, with the key of the signer the header names
SignedBySigner(h) ==
    /\ h.signature.form = "sig"
    /\ h.signature.over = encode_payment_message(h.challenge)
    /\ SameAddress(Address(h.signature.key), h.signer)

C19_Verdict(h) ==
    verify_payment_header(h) =
        IF SignedBySigner(h) THEN Result(TRUE, h.signer, NoVal)
        ELSE Result(FALSE, NoVal, "Signature verification failed")

Mutations(c) ==
    {[c EXCEPT !.price = IF @ = "5" THEN "0.01" ELSE "5"],
     [c EXCEPT !.currency = IF @ = "USDC" THEN "DAI" ELSE "USDC"],
     [c EXCEPT !.chain_id = IF @ = 1 THEN 8453 ELSE 1],
     [c EXCEPT !.merchant = IF SameAddress(@, "0xdef") THEN "0xabc" ELSE "0xdef"],
     [c EXCEPT !.timestamp = @ + 1], [c EXCEPT !.description = IF @ = "fee" THEN "other" ELSE "fee"],
     [c EXCEPT !.nonce = @ + 1]}

\* C20: a signature made over encode(c) verifies against the address of the
\* signing key, and no longer verifies once any single field of c (price,
\* currency, chain_id, merchant, timestamp, description, nonce) is changed
\* before the hash is computed again.
C20_AnyFieldChangeInvalidates ==
    (resp.status # 0 /\ resp.header.kind = "object"
     /\ resp.header.challenge.form = "ok"
     /\ ~EncodeRaises(resp.header.challenge)
     /\ resp.header.signature =
            Sign(resp.header.signature.key,
                 encode_payment_message(resp.header.challenge))) =>
        /\ verify_signature(resp.header.signature,
                            encode_payment_message(resp.header.challenge),
                            Address(resp.header.signature.key))
        /\ \A d \in Mutations(resp.header.challenge) :
              /\ encode_payment_message(d) #
                    encode_payment_message(resp.header.challenge)
              /\ ~verify_signature(resp.header.signature, encode_payment_message(d),
                                   Address(resp.header.signature.key))

\* ---- C21 (UtilSpec)
\* C21: the message built from a challenge has description "" whenever the
\* description of the challenge is absent: the key missing, or present with
\* the value None as in PaymentChallenge.model_dump() of a challenge issued
\* without description.
C21_AbsentDescriptionIsEmpty ==
    (out.op \in {"create_payment_message", "encode_payment_message"}
     /\ out.challenge.description \in {Missing, NoVal}) =>
        MsgDescription(out.msg) = ""

\* ---- C22 (UtilSpec)
\* C22: for every merchant string create_payment_message and
\* encode_payment_message return instead of raising; a merchant that cannot
\* be converted to a checksum address is passed on as the original string,
\* prefixed with 0x when it lacks the prefix.
C22_MalformedMerchantNeverRaises ==
    out.op \in {"create_payment_message", "encode_payment_message"} =>
        /\ out.raised = ""
        /\ ~CanChecksum(out.challenge.merchant) =>
              MsgMerchant(out.msg) = Prefix0x(out.challenge.merchant)

\* ---- C23 (UtilSpec)
\* C23: create_challenge uses every argument as given: currency and chain_id
\* are the configured ones exactly when the caller passed none, the merchant
\* is the configured one, the nonce is set.
C23_SuppliedArgumentsKept ==
    out.op = "create_challenge" =>
        /\ out.result.price = out.args.price
        /\ out.result.currency =
              (IF out.args.currency = NoVal THEN config.currency
               ELSE out.args.currency)
        /\ out.result.chain_id =
              (IF out.args.chain_id = NoChain THEN config.chain_id
               ELSE out.args.chain_id)
        /\ out.result.description = out.args.description
        /\ out.result.merchant = config.merchant_address
        /\ out.result.nonce # 0

\* ---- C24 (CfgSpec)
\* C24: constructing X402Server fails whenever no merchant address is
\* available (no config passed and X402_MERCHANT_ADDRESS unset or empty), no
\* server with an empty merchant address is ever constructed, and every
\* issued challenge has a non-empty merchant.
C24_NoServerWithoutMerchant ==
    /\ out.op = "X402Server" =>
          /\ (out.config = NoConfig /\ env \in {NoVal, ""}) => out.raised # ""
          /\ out.raised = "" => out.result.config.merchant_address \notin {NoVal, ""}
    /\ server_instance.set => server_instance.config.merchant_address \notin {NoVal, ""}
    /\ \A c \in issued : c.merchant \notin {NoVal, ""}

\* ---- C29 (CfgSpec)
\* C29: configure_server(config) installs a global server with that config,
\* which get_server() and every guarded endpoint then use; get_server()
\* builds a server from the environment only when none is installed.
C29_ConfigureInstallsServer ==
    /\ out.op = "configure_server" =>
          /\ out.raised = ""
          /\ server_instance = Instance(IF out.config = NoConfig
                                        THEN PaymentConfig(env, 8453, "USDC")
                                        ELSE out.config)
    /\ (out.op = "get_server" /\ out.raised = "") =>
          /\ out.result = server_instance
          /\ server_instance.set
          /\ resp.status = 402 => resp.challenge.merchant \in
                                     {server_instance.config.merchant_address}

\* ---- C25 (ClientSpec)
\* the call is over, its first response was a 402 with a challenge and the
\* handler returned a payment
PaidCall ==
    /\ cli.pc = "done"
    /\ cli.first.status = 402
    /\ cli.first.body = "challenge"
    /\ cli.handled = 1
    /\ cli.payment = "payment"

\* C25: in every wrapper, when the first response is a 402 with a challenge
\* and the handler returns a payment, exactly one retry of the same method
\* and URL is made with an X-PAYMENT header and its response is returned,
\* also when it is a 402 again; no call makes more than two requests.
C25_OneRetryWithPayment ==
    /\ Len(cli.sent) <= 2
    /\ PaidCall =>
          /\ Len(cli.sent) = 2
          /\ cli.sent[2].method = cli.sent[1].method
          /\ cli.sent[2].url = cli.sent[1].url
          /\ cli.sent[2].headers.payment = "payment"
          /\ cli.ret.exc \in {"", "transport"}
          /\ cli.ret.kind = "response" =>
                \/ cli.ret.resp.id = 2
                \/ cli.w = "X402Client" /\ cli.ret.resp = cli.first

\* ---- C26 (ClientSpec)
\* C26: on the retry every header the caller passed is sent again with its
\* original value and the only header added is X-PAYMENT; method, URL and
\* body are those of the first request.
C26_RetryKeepsEveryHeader ==
    Len(cli.sent) = 2 =>
        /\ cli.sent[2].method = cli.sent[1].method
        /\ cli.sent[2].url = cli.sent[1].url
        /\ cli.sent[2].body = cli.sent[1].body
        /\ cli.sent[2].headers.auth = cli.sent[1].headers.auth
        /\ cli.sent[1].headers.payment # NoVal =>
              cli.sent[2].headers.payment = cli.sent[1].headers.payment
        /\ cli.sent[2].headers.payment # NoVal

\* C26 (amended): on the retry every header the caller passed other than
\* X-PAYMENT is sent again with its original value; X-PAYMENT is set to the
\* payment the handler returned, replacing one the caller passed; method,
\* URL and body are those of the first request.
C26_RetryKeepsOtherHeaders ==
    Len(cli.sent) = 2 =>
        /\ cli.sent[2].method = cli.sent[1].method
        /\ cli.sent[2].url = cli.sent[1].url
        /\ cli.sent[2].body = cli.sent[1].body
        /\ cli.sent[2].headers.auth = cli.sent[1].headers.auth
        /\ cli.sent[2].headers.payment = cli.payment
        /\ cli.payment = "payment"

\* C26 witness: a POST with an Authorization header and a body was retried
C26_Witness ==
    /\ cli.pc = "done"
    /\ Len(cli.sent) = 2
    /\ cli.sent[1].method = "POST"
    /\ cli.sent[1].body = "data"
    /\ cli.sent[1].headers.auth = "Bearer"
    /\ cli.sent[2].headers.auth = "Bearer"
    /\ cli.sent[2].headers.payment = "payment"
    /\ cli.ret.resp.id = 2

\* ---- C27 (ClientSpec)
\* C27: when the handler yields no payment (None or an empty value) for the
\* challenge of a 402, the wrapper returns that 402 response and makes no
\* retry.
C27_NoPaymentNoRetry ==
    (cli.pc = "done" /\ cli.handled = 1 /\ cli.payment \in {NoVal, ""}) =>
        /\ cli.ret = Return(cli.first)
        /\ cli.first.status = 402
        /\ Len(cli.sent) = 1

\* C27 witness: the handler of the patched session returned an empty value
\* and the 402 came back
C27_Witness ==
    /\ cli.pc = "done"
    /\ cli.w = "patch_requests"
    /\ cli.handled = 1
    /\ cli.payment = ""
    /\ cli.ret.resp.status = 402
    /\ cli.ret.resp.id = 1

\* ---- C28 (ClientSpec)
\* C28: a first response that is no 402 is returned unchanged after exactly
\* one request: the handler is not invoked, no X-PAYMENT header is made, and
\* X402Client starts no signing coordinator.
C28_Non402PassesThrough ==
    (cli.pc = "done" /\ cli.first.status # 402) =>
        /\ cli.ret = Return(cli.first)
        /\ Len(cli.sent) = 1
        /\ cli.handled = 0
        /\ ~cli.ws
        /\ cli.headers = cli.sent[1].headers

\* C28 witness: X402Client in ws mode passed a 403 through
C28_Witness ==
    /\ cli.pc = "done"
    /\ cli.w = "X402Client"
    /\ cli.mode = "ws"
    /\ cli.first.status = 403
    /\ cli.ret.resp = cli.first

\* ---- C30 (SpecHttp)
\* a request that carries an X-PAYMENT header: the server state is left as
\* it was, the verdict is the one verify_payment_header gives for the header
\* alone, and a header submitted again gets the verdict it got before
C30_Step ==
    resp'.header.kind \notin {"absent", "empty"} =>
        /\ issued' = issued
        /\ config' = config
        /\ resp'.verified =
              (IF verify_payment_header(resp'.header).valid THEN "valid"
               ELSE "invalid")
        /\ resp'.header = resp.header =>
              resp'.verified = resp.verified /\ resp'.detail = resp.detail

C31_ErrorMessageFailsRequest ==
    [][(ev' # ev /\ ev'.op = "message" /\ ev'.msg.type = "error") =>
          IF ev'.i # NoId /\ ev'.i \in pending_requests
          THEN /\ ev'.raised = ""
               /\ ev'.sent = {}
               /\ ev'.i \notin pending_requests'
               /\ fut'[ev'.i] =
                     [st |-> "exception",
                      val |-> IF ev'.msg.error \in {NoVal, Null}
                              THEN "Unknown error" ELSE ev'.msg.error]
          ELSE /\ ev'.raised = ""
               /\ ev'.sent = {}
               /\ UNCHANGED <<clients, conn, pending_requests, fut, call,
                              running, server, listening>>]_vars

\* ---- C32 (Spec)
\* C32: when the send of the sign-request raises, the call ends in that step
\* with the failure of the send -- it never enters the wait and no timer is
\* involved -- nothing is sent for it, and its own entry is removed from
\* pending_requests: no other entry, future, call or connection changes, so
\* the call leaves the registry without the entry it had added.
C32_SendFailureRaisesAtOnce ==
    [][\A i \in Ids :
          (ev' # ev /\ ev'.op = "send" /\ ev'.i = i /\ ev'.raised # "") =>
              /\ call[i].pc = "sending"
              /\ call[i].waited = 0
              /\ call'[i] = Returned
              /\ ev'.raised = "ConnectionClosed"
              /\ ev'.result = Outcome("sendfail", NoVal)
              /\ ev'.sent = {}
              /\ pending_requests' = pending_requests \ {i}
              /\ \A j \in Ids \ {i} : fut'[j] = fut[j] /\ call'[j] = call[j]
              /\ UNCHANGED <<clients, conn, running, server, listening>>]_vars

\* C32 witness: the send of request 2 has failed and its entry is gone,
\* while request 1 is still registered and waiting
C32_Witness ==
    /\ ev.op = "send"
    /\ ev.i = 2
    /\ ev.raised = "ConnectionClosed"
    /\ ev.result = Outcome("sendfail", NoVal)
    /\ pending_requests = {1}
    /\ call[1].pc = "waiting"
    /\ call[2].pc = "done"

\* ---- C33 (MsgSpec)
\* C33: the step of request_signature that begins the send of the
\* sign-request has registered the entry; while the call is suspended in the
\* send or in the wait, the entry leaves pending_requests only by a message
\* carrying its id or by the failure of the send; so the first well-formed
\* sign-response carrying the id, however early it arrives, is matched: the
\* entry is popped and the future takes the value of the response.
C33_RegisteredBeforeSend ==
    [][\A i \in Ids :
          /\ (call[i].pc = "none" /\ call'[i].pc # "none") =>
                /\ call'[i].pc = "sending"
                /\ i \in pending_requests'
                /\ fut'[i].st = "pending"
                /\ ev'.sent = {}
          /\ (call[i].pc \in {"sending", "waiting"} /\ i \in pending_requests
              /\ i \notin pending_requests') =>
                \/ ev'.op = "message" /\ ev'.i = i
                \/ ev'.op = "send" /\ ev'.i = i /\ call'[i].pc = "done"
                \/ ev'.op = "resume" /\ ev'.i = i /\ fut[i].st = "exception"
          /\ (ev' # ev /\ ev'.op = "message" /\ ev'.i = i
              /\ call[i].pc \in {"sending", "waiting"}
              /\ i \in pending_requests /\ fut[i].st = "pending"
              /\ ev'.msg.type = "sign-response"
              /\ ~(ev'.msg.error = NoVal /\ ev'.msg.result = "bad")) =>
                /\ i \notin pending_requests'
                /\ ev'.raised = ""
                /\ fut'[i].st \in {"result", "exception"}
                /\ fut'[i].val = Carried(ev'.msg)]_vars

\* C33 witness: the response arrived while the send was still suspended, and
\* the call returned its signature as soon as the send ended
C33_Witness ==
    /\ ev.op = "send"
    /\ ev.raised = ""
    /\ ev.result = Outcome("success", "sig")
    /\ call[ev.i].pc = "done"

\* ---- C34 (Spec)
\* C34: a well-formed sign-response whose id is in pending_requests resolves
\* the future of that request whichever registered connection it arrives
\* on, the connection the sign-request is being sent to or any other one:
\* the entry is popped, nothing is raised and the future takes the value of
\* the response.
C34_AnyConnectionResolves ==
    [][\A i \in Ids, c \in ConnIds :
          (ev' # ev /\ ev'.op = "message" /\ ev'.c = c /\ ev'.i = i
           /\ conn[c].st = "loop"
           /\ ev'.msg.type = "sign-response"
           /\ i \in pending_requests /\ fut[i].st = "pending"
           /\ ~(ev'.msg.error = NoVal /\ ev'.msg.result = "bad")) =>
              /\ c \in Range(clients)
              /\ i \notin pending_requests'
              /\ ev'.raised = ""
              /\ fut'[i].st \in {"result", "exception"}
              /\ fut'[i].val = Carried(ev'.msg)
              /\ call'[i] = call[i]]_vars

\* C34 witness: the sign-request of request 1 went to connection 1, the
\* first of the registry, and the response arriving on connection 2 has
\* resolved it
C34_Witness ==
    /\ ev.op = "message"
    /\ ev.c = 2
    /\ ev.i = 1
    /\ ev.msg.type = "sign-response"
    /\ clients = <<1, 2>>
    /\ call[1].pc = "waiting"
    /\ fut[1] = [st |-> "result", val |-> "sig"]
    /\ 1 \notin pending_requests

\* ---- C35 (StopSpec)
\* C35: a connection attempted on another path is closed in the step that
\* rejects it: the registry is unchanged, nothing is sent to it, no request
\* and no future changes; from then on it is never in the registry, never
\* the target of a sign-request, never sent a message, and no message from
\* it is handled.
C35_WrongPathNeverRegistered ==
    /\ [][/\ (ev' # ev /\ ev'.op = "reject-path") =>
               /\ conn[ev'.c].st = "unused"
               /\ conn'[ev'.c].st # "loop"
               /\ conn'[ev'.c].ws = "closed"
               /\ ev'.sent = {}
               /\ UNCHANGED <<clients, pending_requests, fut, call, running,
                              server, listening>>
          /\ \A c \in ConnIds :
               conn[c].st = "rejected" =>
                   /\ conn'[c] = conn[c]
                   /\ c \notin Range(clients')
                   /\ \A i \in Ids : call'[i].target # c
                   /\ ev' # ev =>
                         /\ \A o \in ev'.sent : o.to # c
                         /\ ev'.op \in {"message", "connect", "disconnect"}
                               => ev'.c # c]_vars
    /\ [](\A c \in ConnIds :
            conn[c].st = "rejected" =>
                /\ c \notin Range(clients)
                /\ \A i \in Ids : call[i].target # c)

\* C35 witness: the first connection was rejected for its path; a later one
\* was registered, and a request was dispatched to it and resolved
C35_Witness ==
    /\ conn[1].st = "rejected"
    /\ conn[1].ws = "closed"
    /\ clients = <<2>>
    /\ ev.op = "resume"
    /\ ev.result.kind = "success"

\* ---- C36 (ClientSpec)
\* the first response of the call is a 402 whose handling fails: its body is
\* no usable challenge, or the signing path raised an exception
HandlingFailed ==
    /\ cli.first.status = 402
    /\ \/ Parse(cli.w, cli.first) # "handler"
       \/ cli.handled = 1 /\ cli.payment = "raise"

\* C36: a call of X402Client.request never raises because of the handling
\* of a 402: it returns a response, and that response is the original 402
\* when the body is no usable challenge, when the signing path raises and
\* when the retry fails.
C36_NeverRaises ==
    (cli.pc = "done" /\ cli.w = "X402Client") =>
        /\ cli.ret.kind = "response"
        /\ (HandlingFailed \/ cli.payment = "cancelled") =>
              cli.ret = Return(cli.first) /\ Len(cli.sent) = 1
        /\ Len(cli.sent) = 2 => cli.ret.resp.id = 2 \/ cli.ret = Return(cli.first)

\* C36 (amended): a call of X402Client.request raises no Exception because
\* of the handling of a 402: it returns the original 402 when the body is no
\* usable challenge, when the signing path raises an Exception and when the
\* retry fails; only the CancelledError of a signature request that stop()
\* cancelled leaves the call.
C36_OnlyCancellationEscapes ==
    (cli.pc = "done" /\ cli.w = "X402Client") =>
        IF cli.payment = "cancelled"
        THEN cli.ret = Raised("CancelledError") /\ cli.mode = "ws"
        ELSE /\ cli.ret.kind = "response"
             /\ HandlingFailed =>
                   cli.ret = Return(cli.first) /\ Len(cli.sent) = 1
             /\ Len(cli.sent) = 2 =>
                   cli.ret.resp.id = 2 \/ cli.ret = Return(cli.first)

\* C36 witness: the signing path raised and the call returned the 402
C36_Witness ==
    /\ cli.pc = "done"
    /\ cli.w = "X402Client"
    /\ cli.mode = "ws"
    /\ cli.handled = 1
    /\ cli.payment = "raise"
    /\ cli.first.status = 402
    /\ cli.ret = Return(cli.first)

\* ---- C37 (XcSpec)
\* C37: a client in WebSocket mode has at most one signing coordinator: at
\* most one coordinator holds the port at a time; a request() call passes
\* its signature request to a coordinator that is running; while a
\* coordinator is running no call constructs another one; and when close()
\* has returned, ws_server is None and no coordinator of the client is
\* running or still starting.
C37_AtMostOneCoordinator ==
    /\ [](Cardinality({k \in Insts : HoldsPort(k)}) <= 1)
    /\ [][\A t \in Tasks :
            /\ (xc.task[t].pc # "signing" /\ xc'.task[t].pc = "signing") =>
                  xc'.inst[xc'.task[t].used] = "running"
            /\ (xc.task[t].pc = "idle" /\ xc'.task[t].pc = "starting") =>
                  \A k \in Insts : xc.inst[k] \notin {"running", "starting"}]_vars
    /\ [](xc.closePc = "done" =>
            /\ xc.ws_server = NoInst
            /\ \A k \in Insts : xc.inst[k] \notin {"running", "starting", "stopping"})

\* ---- C38 (XcSpec)
\* the client has a signing path: _handle_402 (client.py 79-90) finds a
\* coordinator port or a handler to use
SigningPath == TruthyHandler(xc.rpc_handler) \/ TruthyPort(xc.ws_port)

\* construction with neither argument fails with ValueError and makes no
\* client; a client that was constructed has a signing path until a setter
\* is called
C38_Construction ==
    /\ (xc.last.op = "init" /\ xc.last.h = NoVal /\ xc.last.p = NoPort) =>
          xc.last.raised = "ValueError" /\ ~xc.made
    /\ (xc.last.op = "init" /\ xc.last.raised = "ValueError") => ~xc.made
    /\ (xc.made /\ xc.last.op = "init") => SigningPath

\* C38: a client always has a signing path: construction fails with
\* ValueError when neither rpc_handler nor ws_port is given, and after a
\* set_rpc_handler or set_ws_server call with a non-null argument exactly
\* the one of rpc_handler and ws_port that the call set is set, the other is
\* None, and the client has a signing path.
C38_AlwaysSigningPath ==
    /\ C38_Construction
    /\ (xc.last.op = "set_rpc_handler" /\ xc.last.h # NoVal) =>
          /\ xc.rpc_handler = xc.last.h
          /\ xc.ws_port = NoPort
          /\ SigningPath
    /\ (xc.last.op = "set_ws_server" /\ xc.last.p # NoPort) =>
          /\ xc.ws_port = xc.last.p
          /\ xc.rpc_handler = NoVal
          /\ SigningPath

\* C38 (amended): as above for set_rpc_handler with a handler and for
\* set_ws_server with a port that is neither None nor 0; after
\* set_ws_server(0) ws_port is 0, rpc_handler is None and the client has no
\* signing path.
C38_SigningPathUnlessPortZero ==
    /\ C38_Construction
    /\ (xc.last.op = "set_rpc_handler" /\ xc.last.h # NoVal) =>
          /\ xc.rpc_handler = xc.last.h
          /\ xc.ws_port = NoPort
          /\ SigningPath
    /\ (xc.last.op = "set_ws_server" /\ xc.last.p # NoPort) =>
          /\ xc.ws_port = xc.last.p
          /\ xc.rpc_handler = NoVal
          /\ SigningPath <=> xc.last.p # 0

\* C38 witness: set_ws_server(4021) was the most recent call on a client
\* that has started no coordinator: the port is set and the handler is None
C38_Witness ==
    /\ xc.made
    /\ xc.last = XcCall("set_ws_server", NoVal, DefaultPort, "")
    /\ xc.ws_port = DefaultPort
    /\ xc.rpc_handler = NoVal
    /\ xc.ws_server = NoInst

\* ---- C39 (ClientSpec)
\* C39: in patch_requests, X402Session and X402HttpxClient the headers
\* mapping the caller passed holds, during and after the call, exactly the
\* entries it held when the call was made; the X-PAYMENT header of the retry
\* is in the headers of the retry's request only.
C39_CallerHeadersUntouched ==
    (cli.pc # "none" /\ cli.w # "X402Client") =>
        /\ cli.headers = cli.sent[1].headers
        /\ Len(cli.sent) = 2 =>
              /\ cli.sent[2].headers.payment = cli.payment
              /\ cli.sent[2].headers.auth = cli.headers.auth

\* C39 witness: X402Session retried a call made with an Authorization
\* header; the retry carried the payment and the caller's mapping has none
C39_Witness ==
    /\ cli.pc = "done"
    /\ cli.w = "X402Session"
    /\ Len(cli.sent) = 2
    /\ cli.sent[2].headers = Hdr("dict", "Bearer", "payment")
    /\ cli.headers = Hdr("dict", "Bearer", NoVal)
====
